---- MODULE Spec2Model ----
(***************************************************************************)
(* Verification model of osmsmart: the /api/tile route handler (cache      *)
(* lookup, Overpass fetch, post-processing, cache store), the Gemini       *)
(* summarization route handlers, and the incremental search loops of the   *)
(* useFetchOsmData hook (grid variant and radius-ring variant).            *)
(*                                                                         *)
(* Conventions                                                             *)
(*   - a parsed query parameter is <<>> (NaN) or <<v>> (the number v);     *)
(*   - coordinates are integers in units of 1e-6 degree, radii in metres;  *)
(*   - a string built by a template literal is a sequence of one-character *)
(*     strings, so that two keys are equal exactly when the strings are.   *)
(***************************************************************************)
EXTENDS Integers, Sequences, FiniteSets, TLC

(***************************************************************************)
(* Bounds of the model.                                                    *)
(***************************************************************************)
\* number of tile requests that may be in flight together
MaxRequests == 2

\* the greatest number of tags of an element the tag filter is tried on
MaxTags == 2

\* the number of columns and of data rows of a summary table
MinColumns == 5

MaxColumns == 6

MaxRows == 2

\* largest coordinate of a way node, in units
MaxCoord == 1

\* most node coordinates of a way
MaxNodes == 5

\* most search loops the effect of useFetchOsmData starts
MaxSearches == 3

VARIABLES
    \* ---- /api/tile ----
    deployed,   \* the version of the route handler that serves the requests
    tiles,      \* the rows of table tiles(id TEXT PRIMARY KEY, data TEXT)
    h,          \* h[i]: the i-th invocation of GET
    \* ---- cache-key derivation on its own ----
    kq,         \* kq[n]: the query of the n-th of two requests
    kid,        \* kid[n]: <<>> or <<shape, tile_id>> once derived
    \* ---- /api/gemini ----
    apiKey,     \* whether process.env.GEMINI_API_KEY is set
    gm,         \* gm[m]: one invocation of handler m, "POST" or "GET"
    \* ---- useFetchOsmData, radius-ring variant (runFetch, fetchOsmWithRing) ----
    rpc,        \* "idle", "send", "request", "cooldown" or "done"
    radius,     \* the radius prop: the initial search radius
    searchRadius,
    previousRadius,
    allElements,        \* [ring |-> n, fallback |-> m]: how many elements of the
                        \* list came from ring fetches and from the fallback query
    bestResult,
    rateLimitDetected,
    ring,       \* the running call of fetchOsmWithRing: outerRadius, innerRadius,
                \* attempts, and the caller ("loop" or "fallback")
    fetchError, \* the fetch-error slot
    step,       \* number of calls of fetchOsmWithRing made by this search
    requests,   \* the requests sent to /api/tile: [step, caller, inner, outer]
    searched,   \* the first call for a disc (innerRadius 0) that returned without
                \* an error: its step and outer radius; step 0 while there is none
    returned,   \* number of elements the ring fetches of the loop returned
    calls,      \* the completion callbacks called, in order
    clock,      \* elapsed times in ms, none counted beyond minRequestInterval:
                \* sinceSend since the last request was sent, sinceStamp since
                \* lastRequestTimeRef.current was set, and gap, the time between the
                \* last two requests
    tried,      \* the answers to the requests of a call of fetchOsmWithRing, each
                \* with the wait that followed it: of the running call once it has
                \* sent a request, of the call before until then
    \* ---- useFetchOsmData, grid variant (runFetch, fetchOsmWithGrid) ----
    gpc,        \* "idle", "send", "request" or "done"
    gridSize,   \* the gridSize state of the Map component
    grid,       \* runFetch's local grid
    gridElements,       \* length of runFetch's local elements
    gridAttempts,       \* attempts of the running fetchOsmWithGrid
    gridError,  \* the fetch-error slot
    fetchedGrids,       \* the grid sizes a bounding box was requested for
    gridCalls,  \* the completion callbacks called, in order
    gridTried,  \* as tried, for the calls of fetchOsmWithGrid
    \* ---- the tag filter ----
    fel,        \* the element the filter is applied to
    fpass,      \* "unfiltered", "kept" or "dropped"
    \* ---- parseGeminiMarkers ----
    mpc,        \* "summary" or "parsed"
    gtable,     \* the table of the summary: header line and data lines
    glines,     \* the lines after the repair step
    gmarkers,   \* the markers returned
    \* ---- getWayCenter ----
    wpc,        \* "way" or "centered"
    wscale,     \* the number of coordinate units in one degree
    wnodes,     \* the node coordinates of the way, in units
    wcenter,    \* the center returned
    \* ---- the Map component ----
    mapc        \* its state: position, shouldFetchOsm, filteredTags, osmData, the
                \* modals and panels, the summary, and the search loops started by
                \* the effect of useFetchOsmData

tileVars == <<deployed, tiles, h>>

keyVars == <<kq, kid>>

geminiVars == <<apiKey, gm>>

ringVars == <<rpc, radius, searchRadius, previousRadius, allElements, bestResult,
              rateLimitDetected, ring, fetchError, step, requests, searched, returned,
              calls, clock, tried>>

gridVars == <<gpc, gridSize, grid, gridElements, gridAttempts, gridError,
              fetchedGrids, gridCalls, gridTried>>

wayVars == <<wpc, wscale, wnodes, wcenter>>

utilVars == <<fel, fpass, mpc, gtable, glines, gmarkers, wayVars, mapc>>

vars == <<deployed, tiles, h, kq, kid, apiKey, gm, rpc, radius, searchRadius,
          previousRadius, allElements, bestResult, rateLimitDetected, ring,
          fetchError, step, requests, searched, returned, calls, clock,
          tried, gpc, gridSize,
          grid, gridElements, gridAttempts, gridError, fetchedGrids, gridCalls,
          gridTried,
          fel, fpass, mpc, gtable, glines, gmarkers,
          wpc, wscale, wnodes, wcenter, mapc>>

(***************************************************************************)
(* Numbers and strings.                                                    *)
(***************************************************************************)
\* parseFloat(searchParams.get(name) || "") of a missing or non-numeric value
NaN == <<>>

Num(v) == <<v>>

isNaN(x) == x = NaN

Val(x) == x[1]

Abs(v) == IF v < 0 THEN 0 - v ELSE v

DigitChar(d) == <<"0", "1", "2", "3", "4", "5", "6", "7", "8", "9">>[d + 1]

RECURSIVE Digits(_)
\* decimal digits of a natural number, most significant first
Digits(n) == IF n < 10 THEN <<DigitChar(n)>>
             ELSE Append(Digits(n \div 10), DigitChar(n % 10))

\* `${n}` of an integer: Number::toString
NumberToString(n) == IF n < 0 THEN <<"-">> \o Digits(0 - n) ELSE Digits(n)

\* the five fraction digits of toFixed(5), zero padded
Frac5(f) == << DigitChar((f \div 10000) % 10), DigitChar((f \div 1000) % 10),
               DigitChar((f \div 100) % 10), DigitChar((f \div 10) % 10),
               DigitChar(f % 10) >>

\* Number.prototype.toFixed(5) of x micro-degrees: the sign is taken from x
\* before rounding ("if x < 0, set s to '-' and x to -x"), then the nearest
\* multiple of 1e-5 is printed, the larger one on a tie.
toFixed5(x) ==
    LET n == (Abs(x) + 5) \div 10
    IN  (IF x < 0 THEN <<"-">> ELSE <<>>)
          \o Digits(n \div 100000) \o <<".">> \o Frac5(n % 100000)

\* the value of a coordinate rounded to 5 decimals, in units of 1e-5 degree
Round5(x) == IF x < 0 THEN 0 - ((Abs(x) + 5) \div 10) ELSE (x + 5) \div 10

(***************************************************************************)
(* Query parameters of GET /api/tile.                                      *)
(***************************************************************************)
Query(lat, lng, rad, innerRadius, minLat, minLng, maxLat, maxLng) ==
    [lat |-> lat, lng |-> lng, radius |-> rad, innerRadius |-> innerRadius,
     minLat |-> minLat, minLng |-> minLng, maxLat |-> maxLat, maxLng |-> maxLng]

\* the versions of the route handler in the repository
RouteVersions == {"route.ts", "part_002"}

hasBbox(q) == ~isNaN(q.minLat) /\ ~isNaN(q.minLng) /\ ~isNaN(q.maxLat) /\ ~isNaN(q.maxLng)

hasRadius(q) == ~isNaN(q.lat) /\ ~isNaN(q.lng) /\ ~isNaN(q.radius)

hasPoint(q) == ~isNaN(q.lat) /\ ~isNaN(q.lng)

\* innerRadius > 0 (false for NaN)
isRing(q) == ~isNaN(q.innerRadius) /\ Val(q.innerRadius) > 0

\* the shape the handler decides for a query: "tile", "bbox", "radius", "ring"
\* or "invalid" (answered 400)
QueryShape(ver, q) ==
    IF ver = "part_002"
    THEN IF hasRadius(q) THEN (IF isRing(q) THEN "ring" ELSE "radius")
         ELSE IF hasBbox(q) THEN "bbox"
         ELSE "invalid"
    ELSE IF hasBbox(q) THEN "bbox"
         ELSE IF hasPoint(q) THEN "tile"
         ELSE "invalid"

Us == <<"_">>

bboxKey(q) ==
    <<"b", "b", "o", "x", "_">> \o toFixed5(Val(q.minLat)) \o Us
      \o toFixed5(Val(q.minLng)) \o Us \o toFixed5(Val(q.maxLat)) \o Us
      \o toFixed5(Val(q.maxLng)) \o <<"_", "z", "1", "7">>

tileKey(q) ==
    <<"t", "i", "l", "e", "_">> \o toFixed5(Val(q.lat)) \o Us
      \o toFixed5(Val(q.lng)) \o <<"_", "z", "1", "7">>

ringKey(q) ==
    <<"r", "i", "n", "g", "_">> \o toFixed5(Val(q.lat)) \o Us
      \o toFixed5(Val(q.lng)) \o Us \o NumberToString(Val(q.innerRadius))
      \o <<"-">> \o NumberToString(Val(q.radius)) \o <<"m">>

radiusKey(q) ==
    <<"r", "a", "d", "i", "u", "s", "_">> \o toFixed5(Val(q.lat)) \o Us
      \o toFixed5(Val(q.lng)) \o Us \o NumberToString(Val(q.radius)) \o <<"m">>

\* tile_id of a query the handler accepts
TileId(ver, q) ==
    CASE QueryShape(ver, q) = "ring"   -> ringKey(q)
      [] QueryShape(ver, q) = "radius" -> radiusKey(q)
      [] QueryShape(ver, q) = "bbox"   -> bboxKey(q)
      [] QueryShape(ver, q) = "tile"   -> tileKey(q)
      [] OTHER -> <<>>

(***************************************************************************)
(* Post-processing of an Overpass answer (processOsmData).  An element is  *)
(* a record whose DOMAIN is the set of its JSON keys.                      *)
(***************************************************************************)
Has(el, k) == k \in DOMAIN el

Coord(lat, lon) == [lat |-> lat, lon |-> lon]

RECURSIVE SumLat(_)
SumLat(cs) == IF cs = <<>> THEN 0 ELSE cs[1].lat + SumLat(Tail(cs))

RECURSIVE SumLon(_)
SumLon(cs) == IF cs = <<>> THEN 0 ELSE cs[1].lon + SumLon(Tail(cs))

\* arithmetic mean of a non-empty coordinate list (truncated to 1e-6 degree)
Mean(cs) == Coord(SumLat(cs) \div Len(cs), SumLon(cs) \div Len(cs))

RECURSIVE MemberCoords(_)
\* the coordinates the members of a relation contribute
MemberCoords(ms) ==
    IF ms = <<>> THEN <<>>
    ELSE (IF Has(ms[1], "geometry") THEN ms[1].geometry
          ELSE IF Has(ms[1], "lat") /\ Has(ms[1], "lon")
               THEN <<Coord(ms[1].lat, ms[1].lon)>>
               ELSE <<>>)
         \o MemberCoords(Tail(ms))

\* the coordinates calculateRelationCentroid collects; <<>> when it returns null
RelationCoords(relation) ==
    (IF Has(relation, "geometry") THEN relation.geometry ELSE <<>>)
      \o (IF Has(relation, "members") THEN MemberCoords(relation.members) ELSE <<>>)

\* <<>> for null, <<centroid>> otherwise
calculateRelationCentroid(relation) ==
    IF RelationCoords(relation) = <<>> THEN <<>>
    ELSE <<Mean(RelationCoords(relation))>>

\* nodeMap.get(id): the last node element with this id that has lat and lon
nodeMapGet(elements, id) ==
    LET hits == {i \in 1..Len(elements) :
                    /\ Has(elements[i], "type") /\ elements[i].type = "node"
                    /\ Has(elements[i], "lat") /\ Has(elements[i], "lon")
                    /\ Has(elements[i], "id") /\ elements[i].id = id}
    IN  IF hits = {} THEN <<>>
        ELSE LET i == CHOOSE j \in hits : \A k \in hits : k <= j
             IN  <<Coord(elements[i].lat, elements[i].lon)>>

RECURSIVE resolveNodes(_, _)
\* the coordinates of the node ids that resolve; unresolved ids are skipped
resolveNodes(elements, nodes) ==
    IF nodes = <<>> THEN <<>>
    ELSE nodeMapGet(elements, nodes[1]) \o resolveNodes(elements, Tail(nodes))

\* one way of the second pass of resolveWayCoordinates
resolveWay(ver, elements, el) ==
    IF Has(el, "type") /\ el.type = "way" /\ Has(el, "nodes")
       /\ resolveNodes(elements, el.nodes) # <<>>
    THEN LET nodeCoords == resolveNodes(elements, el.nodes)
         IN  IF ver = "part_002"
             THEN [nodeCoords |-> nodeCoords, lat |-> Mean(nodeCoords).lat,
                   lon |-> Mean(nodeCoords).lon] @@ el
             ELSE [nodeCoords |-> nodeCoords] @@ el
    ELSE el

resolveWayCoordinates(ver, elements, isRadiusQuery) ==
    IF ver = "part_002" /\ isRadiusQuery THEN elements
    ELSE [i \in 1..Len(elements) |-> resolveWay(ver, elements, elements[i])]

\* the relation pass of processOsmData (part_002 only)
addRelationCentroid(ver, el) ==
    IF ver = "part_002" /\ Has(el, "type") /\ el.type = "relation"
       /\ calculateRelationCentroid(el) # <<>>
    THEN [lat |-> calculateRelationCentroid(el)[1].lat,
          lon |-> calculateRelationCentroid(el)[1].lon] @@ el
    ELSE el

\* Object.keys(el).length !== 1
keepElement(el) == Cardinality(DOMAIN el) # 1

processElements(ver, elements, isRadiusQuery) ==
    LET withCoordinates == resolveWayCoordinates(ver, elements, isRadiusQuery)
        processedElements == [i \in 1..Len(withCoordinates) |->
                                 addRelationCentroid(ver, withCoordinates[i])]
    IN  SelectSeq(processedElements, keepElement)

\* An Overpass answer body: the elements written out, the number of further
\* elements it holds (plain tagged nodes, kept by processing as they are) and
\* the length of JSON.stringify of its processed form.
OsmData(elements, more, chars) == [elements |-> elements, more |-> more, chars |-> chars]

\* osmData.elements.length
rawCount(osmData) == Len(osmData.elements) + osmData.more

processOsmData(ver, osmData, isRadiusQuery) ==
    [osmData EXCEPT !.elements = processElements(ver, osmData.elements, isRadiusQuery)]

(***************************************************************************)
(* Size guards of the handler (part_002).                                  *)
(***************************************************************************)
\* osmData.elements.length > 50000 is answered 413
MaxRawElements == 50000

\* jsonSize / (1024 * 1024) > 10 is answered 413: 10 * 1024 * 1024 characters
MaxProcessedChars == 10485760

(***************************************************************************)
(* The environment of the tile handler: queries and Overpass answers.      *)
(***************************************************************************)
node1 == [type |-> "node", id |-> 1, lat |-> 47376900, lon |-> 8541700,
          tags |-> "tourism:museum"]

node2 == [type |-> "node", id |-> 2, lat |-> 47376920, lon |-> 8541720]

stub5 == [id |-> 5]

way3 == [type |-> "way", id |-> 3, nodes |-> <<1, 2, 9>>, tags |-> "historic:castle"]

relationNoCoords ==
    [type |-> "relation", id |-> 7, tags |-> "tourism:attraction",
     members |-> <<[type |-> "way", ref |-> 3, role |-> "outer"]>>]

relationWithCoords ==
    [type |-> "relation", id |-> 8, tags |-> "leisure:park",
     members |-> <<[type |-> "node", ref |-> 1, role |-> "", lat |-> 47376900, lon |-> 8541700],
                   [type |-> "way", ref |-> 3, role |-> "outer",
                    geometry |-> <<Coord(47376920, 8541720), Coord(47376940, 8541740)>>]>>]

NoOsm == OsmData(<<>>, 0, 0)

\* a small answer at both size limits, an answer with relations, an answer
\* over the element limit, an answer whose processed form is over 10 MB
RawResponses ==
    { OsmData(<<node1, node2, stub5, way3>>, MaxRawElements - 4, MaxProcessedChars),
      OsmData(<<relationNoCoords, relationWithCoords, stub5>>, 0, 510),
      OsmData(<<node1>>, MaxRawElements, 5000000),
      OsmData(<<node1>>, 0, MaxProcessedChars + 1) }

Up(kind, status, bodyOk, osmData) ==
    [kind |-> kind, status |-> status, bodyOk |-> bodyOk, osmData |-> osmData]

\* What a fetch of the Overpass URL can do: reject (abort after the timeout,
\* network failure), or resolve with a status; the body is then read with
\* text() or json(), which succeeds (bodyOk) or throws.
UpstreamAnswers ==
    {Up("throw", 0, FALSE, NoOsm)}
      \cup {Up("answer", 429, TRUE, NoOsm), Up("answer", 504, TRUE, NoOsm)}
      \cup {Up("answer", 504, FALSE, NoOsm), Up("answer", 200, FALSE, NoOsm)}
      \cup {Up("answer", 200, TRUE, r) : r \in RawResponses}

NoUp == Up("none", 0, FALSE, NoOsm)

\* outcome of a statement sent to the store
DbOutcomes == {"ok", "SQLITE_NOMEM", "error"}

\* the point of the end-to-end scenario: lat=47.3769, lng=8.5417
Zurich == Coord(47376900, 8541700)

qPoint == Query(Num(Zurich.lat), Num(Zurich.lon), NaN, Num(0), NaN, NaN, NaN, NaN)

qRadius == Query(Num(Zurich.lat), Num(Zurich.lon), Num(25), Num(0), NaN, NaN, NaN, NaN)

qRing == Query(Num(Zurich.lat), Num(Zurich.lon), Num(100), Num(25), NaN, NaN, NaN, NaN)

qBbox == Query(NaN, NaN, NaN, Num(0), Num(Zurich.lat - 2000), Num(Zurich.lon - 2000),
               Num(Zurich.lat + 2000), Num(Zurich.lon + 2000))

\* neither a complete bounding box nor a complete point
qPartial == Query(Num(Zurich.lat), NaN, Num(25), Num(0), Num(Zurich.lat - 2000), NaN,
                  Num(Zurich.lat + 2000), Num(Zurich.lon + 2000))

TileQueries == {qPoint, qRadius, qRing, qBbox, qPartial}

(***************************************************************************)
(* Responses.                                                              *)
(***************************************************************************)
\* new Response(JSON.stringify({ error }), { status })
ErrorResponse(status) == [status |-> status, xcache |-> "none", kind |-> "error", data |-> NoOsm]

\* new Response(body, { status: 200, headers: { "X-Cache": xcache } })
DataResponse(xcache, data) == [status |-> 200, xcache |-> xcache, kind |-> "data", data |-> data]

NoResponse == [status |-> 0, xcache |-> "none", kind |-> "none", data |-> NoOsm]

(***************************************************************************)
(* POST and GET /api/gemini.                                               *)
(***************************************************************************)
GeminiMethods == {"POST", "GET"}

\* What the call of the generative-language API can do: reject, or resolve
\* with a status and a body that res.json() parses (bodyOk) or not; a parsed
\* body has candidates with a text, or none (an error body, an empty answer).
GeminiAnswer(kind, status, bodyOk, candidates) ==
    [kind |-> kind, status |-> status, bodyOk |-> bodyOk, candidates |-> candidates]

GeminiAnswers ==
    {GeminiAnswer("throw", 0, FALSE, FALSE)}
      \cup {GeminiAnswer("answer", st, FALSE, FALSE) : st \in {200, 429, 500}}
      \cup {GeminiAnswer("answer", 200, TRUE, c) : c \in BOOLEAN}
      \cup {GeminiAnswer("answer", st, TRUE, FALSE) : st \in {400, 429, 500}}

NoGeminiAnswer == GeminiAnswer("none", 0, FALSE, FALSE)

\* new Response(JSON.stringify(body), { status }): the body is {error}, or
\* {answer, candidates} with the model's text or "No answer.", or the model list
GeminiResponse(status, kind, answer) == [status |-> status, kind |-> kind, answer |-> answer]

NoGeminiResponse == GeminiResponse(0, "none", "")

\* One invocation: pc is "idle", "call" (awaiting the upstream fetch), "done"
\* (a Response was returned) or "escaped" (the handler threw).
GeminiHandler(pc, bodyOk, upstream, nCalls, response) ==
    [pc |-> pc, bodyOk |-> bodyOk, upstream |-> upstream, nCalls |-> nCalls,
     response |-> response]

IdleGemini == [m \in GeminiMethods |-> GeminiHandler("idle", TRUE, NoGeminiAnswer, 0, NoGeminiResponse)]

GeminiRespond(g, response) == [g EXCEPT !.pc = "done", !.response = response]

\* POST, lines 4-10: `await req.json()` runs before the try block, so a body
\* that is not valid JSON makes the handler throw; then the key is checked
GeminiPostReceive(bodyOk) ==
    /\ gm["POST"].pc = "idle"
    /\ gm' = [gm EXCEPT !["POST"] =
                 IF ~bodyOk THEN [@ EXCEPT !.pc = "escaped", !.bodyOk = FALSE]
                 ELSE IF ~apiKey
                 THEN GeminiRespond(@, GeminiResponse(500, "error", "Missing Gemini API key"))
                 ELSE [@ EXCEPT !.pc = "call"]]
    /\ UNCHANGED <<apiKey, tileVars, keyVars, ringVars, gridVars, utilVars>>

\* the answer of POST once the upstream call has ended: lines 11-27
PostResult(up) ==
    IF up.kind = "throw" \/ ~up.bodyOk
    THEN GeminiResponse(500, "error", "Gemini API error")
    ELSE GeminiResponse(200, "answer", IF up.candidates THEN "text" ELSE "No answer.")

GeminiPostAnswer(up) ==
    /\ gm["POST"].pc = "call"
    /\ gm' = [gm EXCEPT !["POST"] =
                 GeminiRespond([@ EXCEPT !.upstream = up, !.nCalls = @ + 1], PostResult(up))]
    /\ UNCHANGED <<apiKey, tileVars, keyVars, ringVars, gridVars, utilVars>>

\* GET, lines 31-34
GeminiGetReceive ==
    /\ gm["GET"].pc = "idle"
    /\ gm' = [gm EXCEPT !["GET"] =
                 IF ~apiKey
                 THEN GeminiRespond(@, GeminiResponse(500, "error", "Missing Gemini API key"))
                 ELSE [@ EXCEPT !.pc = "call"]]
    /\ UNCHANGED <<apiKey, tileVars, keyVars, ringVars, gridVars, utilVars>>

\* the answer of GET once the upstream call has ended: lines 35-42
GetResult(up) ==
    IF up.kind = "throw" \/ ~up.bodyOk
    THEN GeminiResponse(500, "error", "Gemini model list error")
    ELSE GeminiResponse(200, "models", "data")

GeminiGetAnswer(up) ==
    /\ gm["GET"].pc = "call"
    /\ gm' = [gm EXCEPT !["GET"] =
                 GeminiRespond([@ EXCEPT !.upstream = up, !.nCalls = @ + 1], GetResult(up))]
    /\ UNCHANGED <<apiKey, tileVars, keyVars, ringVars, gridVars, utilVars>>

NextGemini ==
    \/ \E bodyOk \in BOOLEAN : GeminiPostReceive(bodyOk)
    \/ \E up \in GeminiAnswers : GeminiPostAnswer(up)
    \/ GeminiGetReceive
    \/ \E up \in GeminiAnswers : GeminiGetAnswer(up)

(***************************************************************************)
(* useFetchOsmData, radius-ring variant (part_003).                        *)
(***************************************************************************)
\* radius = 25: the default of the radius prop
DefaultRadius == 25

\* const maxAttempts = 3
maxAttempts == 3

\* while (allElements.length < 20 && searchRadius <= 2000)
MaxSearchRadius == 2000

\* allElements.length >= 20 ends the search
EnoughElements == 20

\* the fallback query: fetchOsmWithRing(200, 0)
FallbackRadius == 200

\* rateLimitDetected && allElements.length < 5
FallbackBelow == 5

\* the radius props a caller passes
InitialRadii == {DefaultRadius, FallbackRadius, 2050}

\* how many elements of an answer pass the tag filter
ElementCounts == {0, 3, 20}

NoElements == [ring |-> 0, fallback |-> 0]

\* allElements.length
Length(els) == els.ring + els.fallback

NoRing == [outerRadius |-> 0, innerRadius |-> 0, attempts |-> 0, caller |-> "none"]

\* What the request to /api/tile can do: the fetch rejects (network failure,
\* abort after 30 s), or resolves with a status; a 200 body parses to an
\* object with n matching elements ("ok"), to one without elements ("empty"),
\* or does not parse ("bad").
TileAnswer(kind, status, json, n) == [kind |-> kind, status |-> status, json |-> json, n |-> n]

TileAnswers ==
    {TileAnswer("throw", 0, "none", 0)}
      \cup {TileAnswer("status", st, "none", 0) : st \in {400, 408, 413, 429, 500}}
      \cup {TileAnswer("status", 200, "bad", 0), TileAnswer("status", 200, "empty", 0)}
      \cup {TileAnswer("status", 200, "ok", n) : n \in ElementCounts}

\* the value fetchOsmWithRing returns: { elements, error? }
Result(n, error) == [elements |-> n, error |-> error]

\* const minRequestInterval = 1500
minRequestInterval == 1500

\* how long a request to /api/tile takes until it resolves or rejects, in ms
RequestDurations == {100, 3000}

\* an elapsed time, not counted beyond minRequestInterval
Cap(ms) == IF ms > minRequestInterval THEN minRequestInterval ELSE ms

\* lastRequestTimeRef.current = 0 and no request sent yet: all times are long
StartClock == [sinceSend |-> minRequestInterval, sinceStamp |-> minRequestInterval,
               gap |-> minRequestInterval]

\* ms pass
Elapse(c, ms) == [c EXCEPT !.sinceSend = Cap(@ + ms), !.sinceStamp = Cap(@ + ms)]

\* lines 62-69: the wait of the global rate limiting
RateLimitDelay(c) ==
    IF c.sinceStamp < minRequestInterval THEN minRequestInterval - c.sinceStamp ELSE 0

\* lines 72-81: 2 s before a ring query, 1 s before a disc query beyond 25 m
QueryDelay(outerRadius, innerRadius) ==
    IF innerRadius > 0 THEN 2000 ELSE IF outerRadius > 25 THEN 1000 ELSE 0

\* lines 62-81: the clock when the first request of a call is about to be sent
CallStartClock(c, outerRadius, innerRadius) ==
    [Elapse(c, RateLimitDelay(c) + QueryDelay(outerRadius, innerRadius))
        EXCEPT !.sinceStamp = Cap(QueryDelay(outerRadius, innerRadius))]

\* fetchOsmWithRing(outerRadius, innerRadius) is called: lines 50-81 run up
\* to the first request (the waits of the rate limiting included)
CallRing(outerRadius, innerRadius, caller) ==
    /\ ring' = [outerRadius |-> outerRadius, innerRadius |-> innerRadius,
                attempts |-> 0, caller |-> caller]
    /\ step' = step + 1
    /\ fetchError' = "null"
    /\ rpc' = "send"

\* an end of runFetch that leaves out onFetchComplete
FinishWithoutComplete(best, sr) ==
    /\ rpc' = "done"
    /\ calls' = calls \o <<[name |-> "onDataFetched", arg |-> Length(best)],
                           [name |-> "onSpinnerToggle", arg |-> 0],
                           [name |-> "onPanelOpen", arg |-> 0],
                           [name |-> "onRadiusUpdate", arg |-> sr]>>

\* the end of runFetch, lines 330-334
Finish(best, sr) ==
    /\ rpc' = "done"
    /\ calls' = calls \o <<[name |-> "onDataFetched", arg |-> Length(best)],
                           [name |-> "onSpinnerToggle", arg |-> 0],
                           [name |-> "onPanelOpen", arg |-> 0],
                           [name |-> "onRadiusUpdate", arg |-> sr],
                           [name |-> "onFetchComplete", arg |-> 0]>>

\* runFetch starts (shouldFetchOsm && position): lines 249-265
RingStart(r) ==
    /\ rpc = "idle"
    /\ radius' = r
    /\ searchRadius' = r
    /\ previousRadius' = 0
    /\ allElements' = NoElements
    /\ bestResult' = NoElements
    /\ rateLimitDetected' = FALSE
    /\ CallRing(r, 0, "loop")
    /\ clock' = CallStartClock(clock, r, 0)
    /\ tried' = <<>>
    /\ UNCHANGED <<requests, searched, returned, calls, tileVars, keyVars, geminiVars, gridVars, utilVars>>

\* lines 90-101: one request to /api/tile?lat&lng&radius[&innerRadius]
RingSend ==
    /\ rpc = "send"
    /\ rpc' = "request"
    /\ clock' = [clock EXCEPT !.sinceSend = 0, !.gap = clock.sinceSend]
    /\ tried' = IF ring.attempts = 0 THEN <<>> ELSE tried
    /\ requests' = requests \cup {[step |-> step, caller |-> ring.caller,
                                   inner |-> ring.innerRadius, outer |-> ring.outerRadius]}
    /\ UNCHANGED <<radius, searchRadius, previousRadius, allElements, bestResult,
                   rateLimitDetected, ring, fetchError, step, searched, returned,
                   calls, tileVars, keyVars, geminiVars, gridVars, utilVars>>

\* a loop that keeps previousRadius at its old value
KeepPreviousRadius(sr, pr) == pr

\* "Prepare for next iteration": previousRadius = searchRadius
NextPreviousRadius(sr, pr) == sr

\* "Intelligent increment strategy", lines 302-308
NextSearchRadius(sr, len) ==
    IF len = 0 /\ sr < 100 THEN sr + 75
    ELSE IF len < EnoughElements THEN sr + 50
    ELSE sr

\* the loop goes on: while (allElements.length < 20 && searchRadius <= 2000)
LoopAgain(len, sr) == len < EnoughElements /\ sr <= MaxSearchRadius

\* a fallback query after every rate-limit error
FallbackAlways(detected, len) == detected

\* lines 311-327 entered: the 5 s cooldown before the fallback query
NeedsFallback(detected, len) == detected /\ len < FallbackBelow

\* a loop that only a timeout stops
StopsOnTimeoutOnly(error) == error = "TIMEOUT"

\* ['PAYLOAD_TOO_LARGE', 'TIMEOUT'].includes(result.error)
StopsExpansion(error) == error \in {"PAYLOAD_TOO_LARGE", "TIMEOUT"}

\* runFetch after the fetch of a loop iteration has returned `result`:
\* lines 267-309, then the fallback (311-327) or the end (330-334)
AfterLoopFetch(result) ==
    IF result.error = "RATE_LIMIT"
    THEN /\ rateLimitDetected' = TRUE
         /\ UNCHANGED <<searchRadius, previousRadius, allElements, bestResult, returned>>
         /\ IF NeedsFallback(TRUE, Length(allElements))
            THEN rpc' = "cooldown" /\ UNCHANGED <<ring, step, calls>>
            ELSE Finish(bestResult, searchRadius) /\ UNCHANGED <<ring, step>>
    ELSE IF StopsExpansion(result.error)
    THEN /\ UNCHANGED <<rateLimitDetected, searchRadius, previousRadius, allElements,
                        bestResult, returned, ring, step>>
         /\ Finish(bestResult, searchRadius)
    ELSE LET all == [allElements EXCEPT !.ring = @ + result.elements]
         IN  /\ allElements' = all
             /\ bestResult' = all
             /\ returned' = returned + result.elements
             /\ UNCHANGED rateLimitDetected
             /\ IF Length(all) >= EnoughElements
                THEN /\ UNCHANGED <<searchRadius, previousRadius, ring, step>>
                     /\ Finish(all, searchRadius)
                ELSE /\ previousRadius' = NextPreviousRadius(searchRadius, previousRadius)
                     /\ searchRadius' = NextSearchRadius(searchRadius, Length(all))
                     /\ IF LoopAgain(Length(all), searchRadius')
                        THEN /\ CallRing(searchRadius', previousRadius', "loop")
                             /\ UNCHANGED calls
                        ELSE /\ Finish(all, searchRadius')
                             /\ UNCHANGED <<ring, step>>

\* runFetch after the fallback query has returned: lines 319-334
AfterFallbackFetch(result) ==
    /\ IF result.elements > Length(allElements)
       THEN /\ allElements' = [ring |-> 0, fallback |-> result.elements]
            /\ bestResult' = [ring |-> 0, fallback |-> result.elements]
            /\ Finish([ring |-> 0, fallback |-> result.elements], searchRadius)
       ELSE /\ UNCHANGED <<allElements, bestResult>>
            /\ Finish(bestResult, searchRadius)
    /\ UNCHANGED <<rateLimitDetected, searchRadius, previousRadius, returned, ring, step>>

\* fetchOsmWithRing returns `result` with the fetch-error slot set to `err`
\* ("keep": as it is)
RingReturn(result, err) ==
    /\ IF ring.caller = "loop" THEN AfterLoopFetch(result) ELSE AfterFallbackFetch(result)
    /\ IF rpc' = "send" THEN TRUE
       ELSE fetchError' = (IF err = "keep" THEN fetchError ELSE err)

\* the request is sent again after a wait: lines 131, 146, 159
RingRetry(err) ==
    /\ ring' = [ring EXCEPT !.attempts = @ + 1]
    /\ rpc' = "send"
    /\ fetchError' = (IF err = "keep" THEN fetchError ELSE err)
    /\ UNCHANGED <<searchRadius, previousRadius, allElements, bestResult,
                   rateLimitDetected, step, returned, calls>>

\* const delay = Math.pow(2, attempts) * 2000, after attempts++
RateLimitWait(attempts) == (2 ^ attempts) * 2000

\* the same wait before every retry
ServerErrorWaitFixed(attempts) == 1000

\* setTimeout(resolve, 1000 * attempts) after a 5xx answer, after attempts++
ServerErrorWait(attempts) == 1000 * attempts

\* setTimeout(resolve, 1000 * attempts) after a rejected fetch, after attempts++
NetworkErrorWait(attempts) == 1000 * attempts

\* the wait that follows answer a when `attempts` requests have failed with it;
\* 0 when the call returns instead of sending the request again
WaitAfter(a, attempts) ==
    IF attempts >= maxAttempts THEN 0
    ELSE IF a.kind = "throw" THEN NetworkErrorWait(attempts)
    ELSE IF a.status = 429 THEN RateLimitWait(attempts)
    ELSE IF a.status >= 500 THEN ServerErrorWait(attempts)
    ELSE 0

\* a fourth request after three failures
retryOnceMore(attempts) == attempts <= maxAttempts

\* if (attempts < maxAttempts), after attempts++: the one test of the 429
\* branch, the 5xx branch and the catch block
retryAgain(attempts) == attempts < maxAttempts

\* the request ends with answer a: lines 103-245 of fetchOsmWithRing, then
\* runFetch up to its next await
RingAnswer(a) ==
    /\ rpc = "request"
    /\ IF a.kind = "throw"
       THEN IF retryAgain(ring.attempts + 1) THEN RingRetry("keep")
            ELSE RingReturn(Result(0, "FETCH_FAILED"), "Failed to fetch data")
       ELSE IF a.status = 200
       THEN IF a.json = "bad" THEN RingReturn(Result(0, "JSON_PARSE_ERROR"), "Invalid response")
            ELSE RingReturn(Result(a.n, ""), "keep")
       ELSE IF a.status = 408 THEN RingReturn(Result(0, "TIMEOUT"), "Request timeout")
       ELSE IF a.status = 413 THEN RingReturn(Result(0, "PAYLOAD_TOO_LARGE"), "Area too large")
       ELSE IF a.status = 429
       THEN IF retryAgain(ring.attempts + 1) THEN RingRetry("Rate limit exceeded - waiting")
            ELSE RingReturn(Result(0, "RATE_LIMIT"), "Rate limit exceeded")
       ELSE IF a.status >= 500
       THEN IF retryAgain(ring.attempts + 1) THEN RingRetry("keep")
            ELSE RingReturn(Result(0, "SERVER_ERROR"), "Server error")
       ELSE RingReturn(Result(0, "CLIENT_ERROR"), "keep")
    /\ tried' = Append(tried, [status |-> a.status,
                                wait |-> WaitAfter(a, ring.attempts + 1)])
    /\ \E ms \in RequestDurations :
           LET c == Elapse(clock, ms + WaitAfter(a, ring.attempts + 1))
           IN  clock' = IF step' # step
                        THEN CallStartClock(c, ring'.outerRadius, ring'.innerRadius)
                        ELSE c
    /\ searched' = IF /\ a.kind = "status" /\ a.status = 200 /\ a.json # "bad"
                      /\ ring.innerRadius = 0 /\ searched.step = 0
                   THEN [step |-> step, outer |-> ring.outerRadius]
                   ELSE searched
    /\ UNCHANGED <<radius, requests, tileVars, keyVars, geminiVars, gridVars, utilVars>>

\* the 5 s cooldown is over: fetchOsmWithRing(200, 0), line 318
RingCooldown ==
    /\ rpc = "cooldown"
    /\ CallRing(FallbackRadius, 0, "fallback")
    /\ clock' = CallStartClock(Elapse(clock, 5000), FallbackRadius, 0)
    /\ UNCHANGED <<tried, radius, searchRadius, previousRadius, allElements, bestResult,
                   rateLimitDetected, requests, searched, returned, calls,
                   tileVars, keyVars, geminiVars, gridVars, utilVars>>

NextRing ==
    \/ \E r \in InitialRadii : RingStart(r)
    \/ RingSend
    \/ \E a \in TileAnswers : RingAnswer(a)
    \/ RingCooldown

(***************************************************************************)
(* useFetchOsmData, grid variant (hooks/useFetchOsmData.tsx; the same loop *)
(* is in components/Map.tsx).                                              *)
(***************************************************************************)
\* setGridSize(3): "always start with 3x3"
StartGridSize == 3

\* grid += 2
GridStep == 2

\* while (elements.length < 20 && grid <= 29)
MaxGrid == 29

\* how many elements of a bounding-box answer pass the tag filter
GridElementCounts == {0, 19, 20, 25}

GridAnswers ==
    {TileAnswer("throw", 0, "none", 0)}
      \cup {TileAnswer("status", st, "none", 0) : st \in {400, 500}}
      \cup {TileAnswer("status", 200, "bad", 0), TileAnswer("status", 200, "empty", 0)}
      \cup {TileAnswer("status", 200, "ok", n) : n \in GridElementCounts}

\* handleFindLocation, then runFetch up to the first fetchOsmWithGrid(grid):
\* lines 175-184
GridStart ==
    /\ gpc \in {"idle", "done"}
    /\ gridSize' = StartGridSize
    /\ grid' = StartGridSize
    /\ gridElements' = 0
    /\ gridAttempts' = 0
    /\ gridError' = "null"
    /\ fetchedGrids' = {}
    /\ gridCalls' = <<>>
    /\ gridTried' = <<>>
    /\ gpc' = "send"
    /\ UNCHANGED <<tileVars, keyVars, geminiVars, ringVars, utilVars>>

\* fetchOsmWithGrid: one request for the bounding box of grid x grid tiles,
\* lines 78-87
GridSend ==
    /\ gpc = "send"
    /\ gpc' = "request"
    /\ fetchedGrids' = fetchedGrids \cup {grid}
    /\ gridTried' = IF gridAttempts = 0 THEN <<>> ELSE gridTried
    /\ UNCHANGED <<gridSize, grid, gridElements, gridAttempts, gridError, gridCalls,
                   tileVars, keyVars, geminiVars, ringVars, utilVars>>

\* if (elements.length < 20) grid += 2
NextGrid(g, n) == IF n < EnoughElements THEN g + GridStep ELSE g

\* while (elements.length < 20 && grid <= 29)
GridAgain(n, g) == n < EnoughElements /\ g <= MaxGrid

\* fetchOsmWithGrid returns n elements with the fetch-error slot set to err:
\* runFetch, lines 185-193
GridReturn(n, err) ==
    /\ gridElements' = n
    /\ grid' = NextGrid(grid, n)
    /\ gridAttempts' = 0
    /\ IF GridAgain(n, NextGrid(grid, n))
       THEN /\ gpc' = "send"
            /\ gridError' = "null"
            /\ UNCHANGED <<gridSize, gridCalls>>
       ELSE /\ gpc' = "done"
            /\ gridError' = (IF err = "keep" THEN gridError ELSE err)
            /\ gridSize' = NextGrid(grid, n)
            /\ gridCalls' = <<[name |-> "onDataFetched", arg |-> n],
                              [name |-> "onSpinnerToggle", arg |-> 0],
                              [name |-> "onPanelOpen", arg |-> 0],
                              [name |-> "onGridSizeUpdate", arg |-> NextGrid(grid, n)],
                              [name |-> "onFetchComplete", arg |-> 0]>>

\* the request is sent again after a wait: lines 95, 109
GridRetry ==
    /\ gridAttempts' = gridAttempts + 1
    /\ gpc' = "send"
    /\ UNCHANGED <<gridSize, grid, gridElements, gridError, gridCalls>>

\* setTimeout(resolve, 1000 * attempts) after a 5xx answer, after attempts++
GridServerErrorWait(attempts) == 1000 * attempts

\* setTimeout(resolve, 1000 * attempts) after a rejected fetch, after attempts++
GridNetworkErrorWait(attempts) == 1000 * attempts

\* the wait that follows answer a when `attempts` requests have failed with it;
\* 0 when the call returns instead of sending the request again
GridWaitAfter(a, attempts) ==
    IF attempts >= maxAttempts THEN 0
    ELSE IF a.kind = "throw" THEN GridNetworkErrorWait(attempts)
    ELSE IF a.status >= 500 THEN GridServerErrorWait(attempts)
    ELSE 0

\* the request ends with answer a: lines 89-171 of fetchOsmWithGrid, then
\* runFetch up to its next await
GridAnswer(a) ==
    /\ gpc = "request"
    /\ IF a.kind = "throw"
       THEN IF gridAttempts + 1 < maxAttempts THEN GridRetry
            ELSE GridReturn(0, "Failed to fetch data")
       ELSE IF a.status = 200
       THEN IF a.json = "bad" THEN GridReturn(0, "Invalid response")
            ELSE GridReturn(a.n, "keep")
       ELSE IF a.status >= 500
       THEN IF gridAttempts + 1 < maxAttempts THEN GridRetry
            ELSE GridReturn(0, "Server error")
       ELSE GridReturn(0, "keep")
    /\ gridTried' = Append(gridTried, [status |-> a.status,
                                        wait |-> GridWaitAfter(a, gridAttempts + 1)])
    /\ UNCHANGED <<fetchedGrids, tileVars, keyVars, geminiVars, ringVars, utilVars>>

NextGrids ==
    \/ GridStart
    \/ GridSend
    \/ \E a \in GridAnswers : GridAnswer(a)

\* a page that mounts one of the two variants of the hook
NextHooks == NextRing \/ NextGrids

\* what a started ring search does by itself: timers fire, requests end
RingProgress == RingSend \/ (\E a \in TileAnswers : RingAnswer(a)) \/ RingCooldown

\* what a started grid search does by itself
GridProgress == GridSend \/ (\E a \in GridAnswers : GridAnswer(a))

(***************************************************************************)
(* GET /api/tile.                                                          *)
(***************************************************************************)
Slots == 1..MaxRequests

\* One invocation of GET: its position (pc), its locals (q, tile_id, processed),
\* and what happened in it: the outcome of the lookup (cached: "none", "hit",
\* "miss" or "error"), the invocations that had stored a row under the same
\* key before the lookup ran (after), the Overpass answer, the number of
\* Overpass calls and of rows written, the outcome of the INSERT, the response.
Handler(pc, q, tile_id, cached, after, overpass, processed, response, nFetch, nWrite, store) ==
    [pc |-> pc, q |-> q, tile_id |-> tile_id, cached |-> cached, after |-> after,
     overpass |-> overpass, processed |-> processed, response |-> response,
     nFetch |-> nFetch, nWrite |-> nWrite, store |-> store]

IdleHandler == Handler("idle", qPartial, <<>>, "none", {}, NoUp, NoOsm, NoResponse, 0, 0, "none")

\* the handler returns `response`
Respond(hi, response) == [hi EXCEPT !.pc = "done", !.response = response]

isRadiusQuery(ver, q) == QueryShape(ver, q) \in {"radius", "ring"}

\* tiles(id TEXT PRIMARY KEY, data TEXT): the rows a new row with this id
\* conflicts with
PrimaryKeyConflicts(rows, id) == {r \in rows : r.id = id}

\* a SELECT that never finds the row
SelectNone(rows, id) == {}

\* SELECT data FROM tiles WHERE id = ?
SelectData(rows, id) == {r \in rows : r.id = id}

\* INSERT OR REPLACE INTO tiles (id, data) VALUES (?, ?) that adds the new
\* elements to the row it finds
InsertMerge(rows, id, data) ==
    (rows \ PrimaryKeyConflicts(rows, id))
      \cup {[id |-> id,
             data |-> IF SelectData(rows, id) = {} THEN data
                      ELSE LET old == CHOOSE r \in SelectData(rows, id) : TRUE
                           IN  [data EXCEPT !.elements = old.data.elements \o data.elements]]}

\* INSERT OR REPLACE INTO tiles (id, data) VALUES (?, ?)
InsertOrReplace(rows, id, data) ==
    (rows \ PrimaryKeyConflicts(rows, id)) \cup {[id |-> id, data |-> data]}

\* lines 105-124 of route.ts, 181-223 of part_002: parse, validate, derive tile_id
\* the same without the early return of the 400 answer
TileReceiveNoReturn(i, q) ==
    /\ h[i].pc = "idle"
    /\ IF i = 1 THEN TRUE ELSE h[i - 1].pc # "idle"
    /\ h' = [h EXCEPT ![i] =
                [@ EXCEPT !.pc = "lookup", !.q = q, !.tile_id = TileId(deployed, q)]]
    /\ UNCHANGED <<deployed, tiles, keyVars, geminiVars, ringVars, gridVars, utilVars>>

TileReceive(i, q) ==
    /\ h[i].pc = "idle"
    /\ IF i = 1 THEN TRUE ELSE h[i - 1].pc # "idle"
    /\ h' = [h EXCEPT ![i] =
                IF QueryShape(deployed, q) = "invalid"
                THEN Respond([@ EXCEPT !.q = q], ErrorResponse(400))
                ELSE [@ EXCEPT !.pc = "lookup", !.q = q, !.tile_id = TileId(deployed, q)]]
    /\ UNCHANGED <<deployed, tiles, keyVars, geminiVars, ringVars, gridVars, utilVars>>

\* the invocations that have stored a row under the key of invocation i
StoredBefore(i) == {j \in Slots \ {i} : h[j].nWrite > 0 /\ h[j].tile_id = h[i].tile_id}

\* "1. Check Turso for cached tile": the SELECT runs (or throws, which the
\* outer catch answers 500) and a row found is returned as it is
TileLookup(i, db) ==
    /\ h[i].pc = "lookup"
    /\ h' = [h EXCEPT ![i] =
                LET g == [@ EXCEPT !.after = StoredBefore(i)]
                IN  IF db # "ok" THEN Respond([g EXCEPT !.cached = "error"], ErrorResponse(500))
                    ELSE IF SelectData(tiles, g.tile_id) # {}
                    THEN Respond([g EXCEPT !.cached = "hit"],
                                 DataResponse("hit", (CHOOSE r \in SelectData(tiles, g.tile_id) : TRUE).data))
                    ELSE [g EXCEPT !.pc = "fetch", !.cached = "miss"]]
    /\ UNCHANGED <<deployed, tiles, keyVars, geminiVars, ringVars, gridVars, utilVars>>

\* the answer to a failed Overpass call that maps every upstream error to 502
UpstreamAll502(ver, up) ==
    IF up.kind = "throw" THEN (IF ver = "part_002" THEN 408 ELSE 500)
    ELSE IF ~up.bodyOk THEN 500
    ELSE 502

\* the status answered when the Overpass call fails: the fetch throws, or
\* resolves with !ok (the error text is read first; a throwing read reaches
\* the outer catch)
UpstreamErrorStatus(ver, up) ==
    IF up.kind = "throw" THEN (IF ver = "part_002" THEN 408 ELSE 500)
    ELSE IF ~up.bodyOk THEN 500
    ELSE IF ver = "part_002" /\ up.status = 429 THEN 429
    ELSE 502

\* a size guard that only looks at the raw element count
SizeGuardCountOnly(ver, osmData, processed) ==
    ver = "part_002" /\ rawCount(osmData) > MaxRawElements

\* the two size guards of part_002 (route.ts has none)
SizeGuard(ver, osmData, processed) ==
    /\ ver = "part_002"
    /\ \/ rawCount(osmData) > MaxRawElements
       \/ processed.chars > MaxProcessedChars

\* the same without the test of overpassRes.ok: the body of every answer
\* is processed and stored
TileFetchIgnoresStatus(i, up) ==
    /\ h[i].pc = "fetch"
    /\ h' = [h EXCEPT ![i] =
                LET g == [@ EXCEPT !.nFetch = @ + 1, !.overpass = up]
                    processed == processOsmData(deployed, up.osmData, isRadiusQuery(deployed, g.q))
                IN  IF up.kind = "throw"
                    THEN Respond(g, ErrorResponse(UpstreamErrorStatus(deployed, up)))
                    ELSE IF ~up.bodyOk THEN Respond(g, ErrorResponse(500))
                    ELSE IF SizeGuard(deployed, up.osmData, processed)
                    THEN Respond(g, ErrorResponse(413))
                    ELSE [g EXCEPT !.pc = "store", !.processed = processed]]
    /\ UNCHANGED <<deployed, tiles, keyVars, geminiVars, ringVars, gridVars, utilVars>>

\* "2. Cache MISS": the Overpass call ends with `up`; the handler answers an
\* error or goes on to store the processed data
TileFetch(i, up) ==
    /\ h[i].pc = "fetch"
    /\ h' = [h EXCEPT ![i] =
                LET g == [@ EXCEPT !.nFetch = @ + 1, !.overpass = up]
                    processed == processOsmData(deployed, up.osmData, isRadiusQuery(deployed, g.q))
                IN  IF up.kind = "throw" \/ up.status # 200
                    THEN Respond(g, ErrorResponse(UpstreamErrorStatus(deployed, up)))
                    ELSE IF ~up.bodyOk THEN Respond(g, ErrorResponse(500))
                    ELSE IF SizeGuard(deployed, up.osmData, processed)
                    THEN Respond(g, ErrorResponse(413))
                    ELSE [g EXCEPT !.pc = "store", !.processed = processed]]
    /\ UNCHANGED <<deployed, tiles, keyVars, geminiVars, ringVars, gridVars, utilVars>>

\* the status answered when the INSERT throws
StoreErrorStatus(ver, db) ==
    IF ver = "part_002" /\ db = "SQLITE_NOMEM" THEN 413 ELSE 500

\* "3. Process and cache", "4. Respond": the INSERT OR REPLACE runs (or
\* throws), then the processed data is returned with X-Cache: miss
TileStore(i, db) ==
    /\ h[i].pc = "store"
    /\ IF db = "ok"
       THEN /\ tiles' = InsertOrReplace(tiles, h[i].tile_id, h[i].processed)
            /\ h' = [h EXCEPT ![i] =
                        Respond([@ EXCEPT !.nWrite = @ + 1, !.store = db],
                                DataResponse("miss", @.processed))]
       ELSE /\ tiles' = tiles
            /\ h' = [h EXCEPT ![i] =
                        Respond([@ EXCEPT !.store = db],
                                ErrorResponse(StoreErrorStatus(deployed, db)))]
    /\ UNCHANGED <<deployed, keyVars, geminiVars, ringVars, gridVars, utilVars>>

NextTile ==
    \E i \in Slots :
        \/ \E q \in TileQueries : TileReceive(i, q)
        \/ \E db \in {"ok", "error"} : TileLookup(i, db)
        \/ \E up \in UpstreamAnswers : TileFetch(i, up)
        \/ \E db \in DbOutcomes : TileStore(i, db)

(***************************************************************************)
(* Cache-key derivation as a function of the query.                        *)
(***************************************************************************)
\* coordinates around 0 and around the scenario's point, in 1e-6 degree
KeyCoords == {NaN, Num(-4), Num(0), Num(4), Num(12)}

KeyRadii == {NaN, Num(25), Num(125)}

KeyQueries ==
    {Query(lat, Num(4), rad, innerRadius, minLat, Num(4), Num(12), Num(12)) :
        lat \in KeyCoords, rad \in KeyRadii, innerRadius \in {Num(0), Num(25)},
        minLat \in {NaN, Num(-4), Num(4)}}

\* the handler derives the key of request n
DeriveKey(n) ==
    /\ kid[n] = <<>>
    /\ QueryShape(deployed, kq[n]) # "invalid"
    /\ kid' = [kid EXCEPT ![n] = <<QueryShape(deployed, kq[n]), TileId(deployed, kq[n])>>]
    /\ UNCHANGED <<kq, tileVars, geminiVars, ringVars, gridVars, utilVars>>

NextKey == \E n \in 1..2 : DeriveKey(n)

(***************************************************************************)
(* The tag filter of the search hooks (utils/allowedTags.ts and the filter *)
(* of fetchOsmWithGrid / fetchOsmWithRing).  A tag is a pair <<key, value>>*)
(* of strings; an element has no tags member (hasTags FALSE) or a set of   *)
(* tags with distinct keys.                                                *)
(***************************************************************************)
tagGroups ==
    [
     Entertainment |->
        {"amenity:casino", "amenity:planetarium", "leisure:stadium",
         "leisure:water_park", "tourism:aquarium", "tourism:theme_park", "tourism:zoo",
         "building:stadium", "aeroway:spaceport"},
     Transport |->
        {"boundary:limited_traffic_zone", "boundary:low_emission_zone",
         "amenity:boat_rental", "barrier:border_control", "building:train_station",
         "highway:hitchhiking", "man_made:pier", "railway:funicular",
         "office:harbour_master"},
     Sport |->
        {"leisure:ice_rink", "leisure:miniature_golf", "amenity:public_bath",
         "amenity:surf_school", "amenity:dive_centre", "landuse:winter_sports",
         "leisure:marina"},
     Culture |->
        {"amenity:arts_centre", "amenity:monastery", "amenity:place_of_worship",
         "building:cathedral", "building:church", "building:kingdom_hall",
         "building:monastery", "building:mosque", "building:synagogue",
         "building:temple", "building:museum", "tourism:artwork", "tourism:gallery",
         "tourism:museum"},
     Nature |->
        {"landuse:salt_pond", "mountain_pass:yes", "boundary:aboriginal_lands",
         "boundary:national_park", "boundary:protected_area",
         "geological:volcanic_caldera_rim", "geological:volcanic_lava_field",
         "geological:volcanic_vent", "geological:columnar_jointing",
         "geological:hoodoo", "geological:dyke", "geological:tor",
         "geological:inselberg", "leisure:bird_hide", "leisure:nature_reserve",
         "natural:beach", "natural:blowhole", "natural:geyser", "natural:glacier",
         "natural:hot_spring", "natural:isthmus", "natural:arch",
         "natural:cave_entrance", "natural:dune", "natural:fumarole",
         "natural:volcano", "tourism:viewpoint", "waterway:waterfall"},
     Food |->
        {"amenity:marketplace", "amenity:food_court", "shop:ice_cream",
         "landuse:vineyard", "craft:winery", "shop:mall"},
     History |->
        {"historic:aircraft", "historic:aqueduct", "historic:archaeological_site",
         "historic:building", "historic:castle", "historic:castle_wall",
         "historic:church", "historic:city_gate", "historic:citywalls",
         "historic:district", "historic:farm", "historic:fort", "historic:house",
         "historic:locomotive", "historic:manor", "historic:monastery",
         "historic:mine", "historic:monument", "historic:mosque", "historic:road",
         "historic:ruins", "historic:ship", "historic:temple", "historic:tomb",
         "historic:tower", "historic:wreck", "building:bridge", "building:beach_hut",
         "building:castle", "building:ship", "building:triumphal_arch",
         "barrier:city_wall", "man_made:lighthouse", "man_made:observatory",
         "man_made:watermill", "man_made:windmill"},
     Tourism |->
        {"leisure:beach_resort", "amenity:ranger_station", "office:guide",
         "tourism:alpine_hut", "tourism:attraction", "tourism:yes"},
     Health |->
        {"amenity:kneipp_water_cure"},
     Other |->
        {"boundary:hazard", "boundary:timezone"}
    ]

allowedCategories == {"Entertainment", "Culture", "Nature", "History", "Tourism"}

\* new Set([...allowedCategories.flatMap(category => tagGroups[category] || [])])
allowedTags == UNION {tagGroups[category] : category \in allowedCategories}

\* `${key}:${value}`
fullTag(key, value) == key \o ":" \o value

TaggedElement(hasTags, tags) == [hasTags |-> hasTags, tags |-> tags]

\* a filter that matches the full tag only
hasFullTagOnly(el, tagsToUse) ==
    \E t \in el.tags : fullTag(t[1], t[2]) \in tagsToUse

\* Object.entries(el.tags).some(([key, value]) =>
\*     allowedTags.has(`${key}:${value}`) || allowedTags.has(key))
hasMatchingTag(el, tagsToUse) ==
    \E t \in el.tags : fullTag(t[1], t[2]) \in tagsToUse \/ t[1] \in tagsToUse

\* if (!el.tags) return false; return hasMatchingTag
passesTagFilter(el, tagsToUse) == el.hasTags /\ hasMatchingTag(el, tagsToUse)

\* the tags the filter is tried on: keys and values of the default set,
\* other keys and values, a key with a colon, another letter case
TagKeys == {"amenity", "tourism", "building", "tourism:museum", "Tourism", "name"}

TagValues == {"museum", "yes", "Museum", "casino"}

SampleTags == {<<key, value>> : key \in TagKeys, value \in TagValues}

\* at most MaxTags tags, with distinct keys
TagSets ==
    {ts \in SUBSET SampleTags :
        /\ Cardinality(ts) <= MaxTags
        /\ \A t1, t2 \in ts : t1[1] = t2[1] => t1 = t2}

FilterInputs == {TaggedElement(FALSE, {})} \cup {TaggedElement(TRUE, ts) : ts \in TagSets}

\* data.elements.filter(...) reaches element fel
ApplyTagFilter ==
    /\ fpass = "unfiltered"
    /\ fpass' = IF passesTagFilter(fel, allowedTags) THEN "kept" ELSE "dropped"
    /\ UNCHANGED <<fel, mpc, gtable, glines, gmarkers, wayVars, mapc, tileVars, keyVars,
                   geminiVars, ringVars, gridVars>>

NextFilter == ApplyTagFilter

(***************************************************************************)
(* parseGeminiMarkers (types/osm.ts; the same function is in               *)
(* components/Map.tsx).  A table line is the text after trimming: the      *)
(* cells written between its pipes (each trimmed) and whether a pipe ends  *)
(* it.  JavaScript arrays are sequences, indexed from 0 by At.             *)
(***************************************************************************)
Line(cells, trailingPipe) == [cells |-> cells, trailingPipe |-> trailingPipe]

\* line.split('|').map(cell => cell.trim()) of a line that starts with '|'
splitCells(line) ==
    <<"">> \o line.cells \o (IF line.trailingPipe THEN <<"">> ELSE <<>>)

\* '| ' + cells.join(' | ') + ' |'
joinCells(cells) == Line(cells, TRUE)

\* h.toLowerCase() of a header cell
toLowerCase(c) ==
    CASE c = "Name" -> "name"
      [] c = "Description" -> "description"
      [] c = "Popularity" -> "popularity"
      [] c = "Best for" -> "best for"
      [] c = "Insider Tips" -> "insider tips"
      [] c = "Latitude" -> "latitude"
      [] c = "Longitude" -> "longitude"
      [] OTHER -> c

\* h.charAt(0).toUpperCase() + h.slice(1)
capitalize(c) ==
    CASE c = "name" -> "Name"
      [] c = "description" -> "Description"
      [] c = "popularity" -> "Popularity"
      [] c = "insider tips" -> "Insider tips"
      [] c = "latitude" -> "Latitude"
      [] c = "longitude" -> "Longitude"
      [] OTHER -> c

\* parseFloat(cell), in 1e-6 degree
parseFloat(c) ==
    CASE c = "47.3703" -> Num(47370300)
      [] c = "8.5481" -> Num(8548100)
      [] c = "47.3701" -> Num(47370100)
      [] c = "8.5440" -> Num(8544000)
      [] OTHER -> NaN

requiredHeaders ==
    <<"name", "description", "popularity", "insider tips", "latitude", "longitude">>

\* array.indexOf(x) / array.findIndex(h => h === x): first index from 0, or -1
indexOf(array, x) ==
    IF \E i \in 1..Len(array) : array[i] = x
    THEN (CHOOSE i \in 1..Len(array) :
             array[i] = x /\ \A j \in 1..(i - 1) : array[j] # x) - 1
    ELSE -1

\* array[i] || ''
At(array, i) == IF i >= 0 /\ i < Len(array) THEN array[i + 1] ELSE ""

\* cells.shift() / cells.pop() of a leading / trailing empty cell
dropLeadingEmpty(cells) ==
    IF Len(cells) > 0 /\ cells[1] = "" THEN Tail(cells) ELSE cells

dropTrailingEmpty(cells) ==
    IF Len(cells) > 0 /\ cells[Len(cells)] = "" THEN SubSeq(cells, 1, Len(cells) - 1)
    ELSE cells

\* "Repair each row": rowObj[h] = cells[headerCells.indexOf(h)] || '' for
\* every header cell, then the row in the required order
repairRow(headerCells, row) ==
    LET cells == dropTrailingEmpty(dropLeadingEmpty(splitCells(row)))
        rowObj(hc) == IF indexOf(headerCells, hc) = -1 THEN ""
                      ELSE At(cells, indexOf(headerCells, hc))
    IN  joinCells([k \in 1..Len(requiredHeaders) |-> rowObj(requiredHeaders[k])])

\* the header cells as the function reads them
headerCellsOf(header) ==
    [i \in 1..Len(splitCells(header)) |-> toLowerCase(splitCells(header)[i])]

\* requiredHeaders.some(h => headerMap[h] === -1)
needsRepair(headerCells) ==
    \E k \in 1..Len(requiredHeaders) : indexOf(headerCells, requiredHeaders[k]) = -1

\* the lines after the repair step: [header, rows] (the separator line is
\* rebuilt with the header and never read again)
repairLines(table) ==
    IF needsRepair(headerCellsOf(table.header))
    THEN [header |-> joinCells([k \in 1..Len(requiredHeaders) |-> capitalize(requiredHeaders[k])]),
          rows |-> [r \in 1..Len(table.rows) |->
                       repairRow(headerCellsOf(table.header), table.rows[r])]]
    ELSE table

GeminiMarker(name, description, lat, lon) ==
    [name |-> name, description |-> description, lat |-> lat, lon |-> lon]

Max2(a, b) == IF a >= b THEN a ELSE b

\* "Now parse rows": the markers of the data lines, in order
RECURSIVE markersOf(_, _)
markersOf(headerCells, rows) ==
    IF rows = <<>> THEN <<>>
    ELSE LET cells == splitCells(Head(rows))
             nameIdx == indexOf(headerCells, "name")
             descIdx == indexOf(headerCells, "description")
             latIdx == indexOf(headerCells, "latitude")
             lonIdx == indexOf(headerCells, "longitude")
             lat == parseFloat(At(cells, latIdx))
             lon == parseFloat(At(cells, lonIdx))
             ok == /\ Len(cells) > Max2(Max2(nameIdx, descIdx), Max2(latIdx, lonIdx))
                   /\ latIdx # -1 /\ lonIdx # -1
                   /\ ~isNaN(lat) /\ ~isNaN(lon)
         IN  (IF ok
              THEN <<GeminiMarker(IF nameIdx # -1 THEN At(cells, nameIdx) ELSE "",
                                  IF descIdx # -1 THEN At(cells, descIdx) ELSE "",
                                  Val(lat), Val(lon))>>
              ELSE <<>>) \o markersOf(headerCells, Tail(rows))

parseGeminiMarkers(table) ==
    markersOf(IF needsRepair(headerCellsOf(table.header)) THEN requiredHeaders
              ELSE headerCellsOf(table.header),
              repairLines(table).rows)

\* the columns a summary table is written with
WrittenColumns ==
    {"Name", "Description", "Popularity", "Best for", "Insider Tips", "Latitude", "Longitude"}

\* the cell of row r under a column
CellOf(r, column) ==
    LET odd == r % 2 = 1
    IN  CASE column = "name" -> IF odd THEN "Kunsthaus" ELSE "Grossmunster"
          [] column = "description" -> IF odd THEN "art museum" ELSE "church"
          [] column = "popularity" -> IF odd THEN "high" ELSE "very high"
          [] column = "best for" -> IF odd THEN "families" ELSE "views"
          [] column = "insider tips" -> IF odd THEN "go early" ELSE "climb the tower"
          [] column = "latitude" -> IF odd THEN "47.3703" ELSE "47.3701"
          [] column = "longitude" -> IF odd THEN "8.5481" ELSE "8.5440"
          [] OTHER -> ""

\* headers: "Name" first (the table is found by its "| Name |"), then
\* distinct other columns
Headers ==
    {hd \in UNION {[1..n -> WrittenColumns] : n \in MinColumns..MaxColumns} :
        /\ hd[1] = "Name"
        /\ \A a, b \in 1..Len(hd) : hd[a] = hd[b] => a = b}

SummaryTable(hd, nRows, trailingPipe) ==
    [header |-> Line(hd, trailingPipe),
     rows |-> [r \in 1..nRows |->
                  Line([k \in 1..Len(hd) |-> CellOf(r, toLowerCase(hd[k]))], trailingPipe)]]

SummaryTables ==
    {SummaryTable(hd, nRows, trailingPipe) :
        hd \in Headers, nRows \in 1..MaxRows, trailingPipe \in BOOLEAN}

NoTable == [header |-> Line(<<>>, FALSE), rows |-> <<>>]

\* parseGeminiMarkers(summary) runs on the table of the summary
ParseMarkers ==
    /\ mpc = "summary"
    /\ mpc' = "parsed"
    /\ glines' = repairLines(gtable)
    /\ gmarkers' = parseGeminiMarkers(gtable)
    /\ UNCHANGED <<gtable, fel, fpass, wayVars, mapc, tileVars, keyVars, geminiVars, ringVars,
                   gridVars>>

NextMarkers == ParseMarkers

(***************************************************************************)
(* getWayCenter (src/types/osm.ts).  Coordinates are whole numbers of a     *)
(* unit of which wscale make one degree; a quotient is kept as an exact     *)
(* fraction, so the rounding of floating-point arithmetic is left out.      *)
(***************************************************************************)
Frac(num, den) == [num |-> num, den |-> den]

\* equality of the numbers two fractions stand for
FracEq(a, b) == a.num * b.den = b.num * a.den

SameCenter(a, b) == FracEq(a.lat, b.lat) /\ FracEq(a.lon, b.lon)

\* the value of a way that has no center yet
NoCenter == Coord(Frac(0, 1), Frac(0, 1))

\* sum.lat / nodeCoords.length, sum.lon / nodeCoords.length
arithmeticCentroid(nodeCoords) ==
    Coord(Frac(SumLat(nodeCoords), Len(nodeCoords)),
          Frac(SumLon(nodeCoords), Len(nodeCoords)))

crossProduct(curr, next) == curr.lon * next.lat - next.lon * curr.lat

RECURSIVE shoelace(_, _)
\* the sums of the loop over i = 0 .. nodeCoords.length - 2, from index i on
shoelace(nodeCoords, i) ==
    IF i >= Len(nodeCoords)
    THEN [area |-> 0, centroidLat |-> 0, centroidLon |-> 0]
    ELSE LET curr == nodeCoords[i]
             next == nodeCoords[i + 1]
             more == shoelace(nodeCoords, i + 1)
         IN  [area |-> more.area + crossProduct(curr, next),
              centroidLat |->
                  more.centroidLat + (curr.lat + next.lat) * crossProduct(curr, next),
              centroidLon |->
                  more.centroidLon + (curr.lon + next.lon) * crossProduct(curr, next)]

\* 1 / 0.0001: Math.abs(difference in degrees) < 0.0001
ClosedPerDegree == 10000

\* 1 / 0.000001: Math.abs(area in square degrees) < 0.000001
AreaPerSquareDegree == 1000000

\* d units are less than 0.0001 degree
withinClosedTolerance(scale, d) == Abs(d) * ClosedPerDegree < scale

isClosedPolygon(scale, nodeCoords) ==
    /\ Len(nodeCoords) >= 4
    /\ withinClosedTolerance(scale, nodeCoords[1].lat - nodeCoords[Len(nodeCoords)].lat)
    /\ withinClosedTolerance(scale, nodeCoords[1].lon - nodeCoords[Len(nodeCoords)].lon)

\* Math.abs(area) < 0.000001 where area is half the sum of the cross products:
\* |sum| * 500000 < scale * scale, written without the large product
areaBelowLimit(scale, sum) ==
    Abs(sum) < ((scale * scale - 1) \div (AreaPerSquareDegree \div 2)) + 1

\* area = sum / 2 and centroid / (6 * area) = centroid / (3 * sum)
shoelaceCentroid(nodeCoords) ==
    LET s == shoelace(nodeCoords, 1)
    IN  Coord(Frac(s.centroidLat, 3 * s.area), Frac(s.centroidLon, 3 * s.area))

\* for a non-empty list of node coordinates
getWayCenter(scale, nodeCoords) ==
    IF Len(nodeCoords) <= 3
    THEN arithmeticCentroid(nodeCoords)
    ELSE IF isClosedPolygon(scale, nodeCoords)
         THEN IF areaBelowLimit(scale, shoelace(nodeCoords, 1).area)
              THEN arithmeticCentroid(nodeCoords)
              ELSE shoelaceCentroid(nodeCoords)
         ELSE arithmeticCentroid(nodeCoords)

\* units per degree: degrees, thousandths and 1/20000 of a degree
Scales == {1, 1000, 20000}

WayPoints == {Coord(lat, lon) : lat \in 0..MaxCoord, lon \in 0..MaxCoord}

Ways == UNION {[1..n -> WayPoints] : n \in 1..MaxNodes}

\* getWayCenter(nodeCoords) is called for the way
CenterWay ==
    /\ wpc = "way"
    /\ wpc' = "centered"
    /\ wcenter' = getWayCenter(wscale, wnodes)
    /\ UNCHANGED <<wscale, wnodes, fel, fpass, mpc, gtable, glines, gmarkers, mapc, tileVars,
                   keyVars, geminiVars, ringVars, gridVars>>

NextCenter == CenterWay

(***************************************************************************)
(* The Map component (part_007) with the effect of useFetchOsmData.  A      *)
(* position is known by its identity only: every setPosition stores a new  *)
(* array.  A search loop is known by the position and the tag set its      *)
(* closure holds.                                                          *)
(***************************************************************************)
\* the state after the first render and the effect of lines 105-108
MountedMap ==
    [showInitModal |-> TRUE, showInterestModal |-> FALSE, shouldFetchOsm |-> FALSE,
     position |-> 1, filteredTags |-> {}, mapMode |-> "explore", osmData |-> 0,
     panelOpen |-> FALSE, topPanelOpen |-> FALSE, loadingSummary |-> FALSE,
     summary |-> "", spc |-> "idle", answered |-> "none", loops |-> <<>>]

\* setPosition([...]): another array
NewPosition(position) == IF position = 1 THEN 2 ELSE 1

\* filteredTags && filteredTags.size > 0 ? filteredTags : allowedTags
tagsToUse(filteredTags) == IF filteredTags # {} THEN filteredTags ELSE allowedTags

\* interest.charAt(0).toUpperCase() + interest.slice(1)
capitalizedInterest(interest) ==
    CASE interest = "transport" -> "Transport"
      [] interest = "sport" -> "Sport"
      [] interest = "health" -> "Health"
      [] interest = "food" -> "Food"

\* the filteredTagsSet of handleInterestConfirm
filteredTagsSet(interests) ==
    UNION {tagGroups[capitalizedInterest(interest)] : interest \in interests}

\* the dependencies of the fetch effect that the model tells apart
EffectDeps(m) == <<m.shouldFetchOsm, m.position, m.filteredTags>>

\* runFetch(): if (shouldFetchOsm && position) a search loop starts
runFetch(m) ==
    IF m.shouldFetchOsm /\ m.position # 0
    THEN [m EXCEPT !.loops = Append(@, [position |-> m.position,
                                        tags |-> tagsToUse(m.filteredTags),
                                        mode |-> m.mapMode, running |-> TRUE])]
    ELSE m

\* the render that follows a state update: the effect runs again when one of
\* its dependencies has changed; it has no cleanup function
EffectAfterRender(old, new) ==
    IF EffectDeps(old) # EffectDeps(new) THEN runFetch(new) ELSE new

MapStep(new) ==
    /\ Len(EffectAfterRender(mapc, new).loops) <= MaxSearches
    /\ mapc' = EffectAfterRender(mapc, new)
    /\ UNCHANGED <<fel, fpass, mpc, gtable, glines, gmarkers, wayVars, tileVars, keyVars,
                   geminiVars, ringVars, gridVars>>

\* "Everything around me": handleFindLocation with its geolocation callback
MapFindLocation ==
    /\ mapc.showInitModal
    /\ MapStep([mapc EXCEPT !.showInitModal = FALSE, !.mapMode = "explore",
                            !.position = NewPosition(@), !.shouldFetchOsm = TRUE])

\* "I have a specific interest": handleSpecificInterest, its geolocation
\* callback and the timer that shows the interest modal
MapSpecificInterest ==
    /\ mapc.showInitModal
    /\ MapStep([mapc EXCEPT !.showInitModal = FALSE, !.mapMode = "interest",
                            !.osmData = 0, !.panelOpen = FALSE,
                            !.position = NewPosition(@), !.showInterestModal = TRUE])

\* the interests the modal can confirm
InterestSelections == {{"food"}, {"sport", "health"}}

\* handleInterestConfirm(interests), interests.length > 0
MapInterestConfirm(interests) ==
    /\ mapc.showInterestModal
    /\ MapStep([mapc EXCEPT !.showInterestModal = FALSE, !.osmData = 0,
                            !.panelOpen = FALSE, !.topPanelOpen = FALSE,
                            !.filteredTags = filteredTagsSet(interests),
                            !.shouldFetchOsm = TRUE])

\* handleInterestCancel
MapInterestCancel ==
    /\ mapc.showInterestModal
    /\ MapStep([mapc EXCEPT !.showInterestModal = FALSE, !.showInitModal = TRUE])

\* position changes again while shouldFetchOsm is true and a search is in
\* flight (a second geolocation callback, a changed prop)
MapDependencyChange ==
    /\ mapc.shouldFetchOsm
    /\ \E i \in 1..Len(mapc.loops) : mapc.loops[i].running
    /\ MapStep([mapc EXCEPT !.position = NewPosition(@)])

\* loop i reaches the end of runFetch: onDataFetched(its elements),
\* onSpinnerToggle(false), onPanelOpen(), the size update, onFetchComplete()
MapLoopEnd(i) ==
    /\ i \in 1..Len(mapc.loops)
    /\ mapc.loops[i].running
    /\ MapStep([mapc EXCEPT !.loops[i].running = FALSE, !.osmData = i,
                            !.panelOpen = TRUE, !.shouldFetchOsm = FALSE])

\* onSummarize up to the request to /api/gemini, lines 280-294
MapSummarize ==
    /\ mapc.panelOpen
    /\ mapc.osmData # 0
    /\ mapc.spc = "idle"
    /\ MapStep([mapc EXCEPT !.loadingSummary = TRUE, !.summary = "",
                            !.panelOpen = FALSE, !.spc = "request",
                            !.answered = "none"])

\* how the request ends: the fetch rejects; the endpoint answers 500 with
\* { error }; the body is no JSON; 200 with { answer }
SummaryAnswers == {"reject", "error", "nojson", "answer"}

\* setSummary(result.answer || "No summary available.") or the catch block
summaryOf(a) ==
    CASE a = "answer" -> "answer"
      [] a = "error" -> "No summary available."
      [] a \in {"reject", "nojson"} -> "Error retrieving summary."

\* onSummarize from the end of the request on, lines 295-302
MapSummaryAnswer(a) ==
    /\ mapc.spc = "request"
    /\ MapStep([mapc EXCEPT !.summary = summaryOf(a), !.topPanelOpen = TRUE,
                            !.loadingSummary = FALSE, !.spc = "idle",
                            !.answered = a])

\* onClose of the summary panel, lines 312-322
MapSummaryClose ==
    /\ mapc.topPanelOpen
    /\ MapStep([mapc EXCEPT !.position = NewPosition(@), !.showInitModal = TRUE,
                            !.topPanelOpen = FALSE, !.panelOpen = FALSE,
                            !.osmData = 0, !.summary = "", !.mapMode = "explore",
                            !.answered = "none"])

NextMap ==
    \/ MapFindLocation
    \/ MapSpecificInterest
    \/ \E interests \in InterestSelections : MapInterestConfirm(interests)
    \/ MapInterestCancel
    \/ MapDependencyChange
    \/ \E i \in 1..MaxSearches : MapLoopEnd(i)
    \/ MapSummarize
    \/ \E a \in SummaryAnswers : MapSummaryAnswer(a)
    \/ MapSummaryClose

(***************************************************************************)
(* Specifications.                                                         *)
(***************************************************************************)
\* no request received yet
IdleHandlers == [i \in Slots |-> IdleHandler]

\* no key derivation under way
IdleKeys == [n \in 1..2 |-> <<>>]

IdleQueries == [n \in 1..2 |-> qPartial]

InitTile ==
    /\ deployed \in RouteVersions
    /\ tiles = {}
    /\ h = IdleHandlers
    /\ kq = IdleQueries
    /\ kid = IdleKeys
    /\ apiKey = TRUE
    /\ gm = IdleGemini
    /\ rpc = "idle"
    /\ radius = DefaultRadius
    /\ searchRadius = DefaultRadius
    /\ previousRadius = 0
    /\ allElements = NoElements
    /\ bestResult = NoElements
    /\ rateLimitDetected = FALSE
    /\ ring = NoRing
    /\ fetchError = "null"
    /\ step = 0
    /\ requests = {}
    /\ searched = [step |-> 0, outer |-> 0]
    /\ returned = 0
    /\ calls = <<>>
    /\ clock = StartClock
    /\ tried = <<>>
    /\ gpc = "idle"
    /\ gridSize = StartGridSize
    /\ grid = StartGridSize
    /\ gridElements = 0
    /\ gridAttempts = 0
    /\ gridError = "null"
    /\ fetchedGrids = {}
    /\ gridCalls = <<>>
    /\ gridTried = <<>>
    /\ fel = TaggedElement(FALSE, {})
    /\ fpass = "unfiltered"
    /\ mpc = "summary"
    /\ gtable = NoTable
    /\ glines = NoTable
    /\ gmarkers = <<>>
    /\ wpc = "way"
    /\ wscale = 1
    /\ wnodes = <<>>
    /\ wcenter = NoCenter
    /\ mapc = MountedMap

InitKey ==
    /\ deployed \in RouteVersions
    /\ tiles = {}
    /\ h = IdleHandlers
    /\ kq \in [1..2 -> KeyQueries]
    /\ kid = IdleKeys
    /\ apiKey = TRUE
    /\ gm = IdleGemini
    /\ rpc = "idle"
    /\ radius = DefaultRadius
    /\ searchRadius = DefaultRadius
    /\ previousRadius = 0
    /\ allElements = NoElements
    /\ bestResult = NoElements
    /\ rateLimitDetected = FALSE
    /\ ring = NoRing
    /\ fetchError = "null"
    /\ step = 0
    /\ requests = {}
    /\ searched = [step |-> 0, outer |-> 0]
    /\ returned = 0
    /\ calls = <<>>
    /\ clock = StartClock
    /\ tried = <<>>
    /\ gpc = "idle"
    /\ gridSize = StartGridSize
    /\ grid = StartGridSize
    /\ gridElements = 0
    /\ gridAttempts = 0
    /\ gridError = "null"
    /\ fetchedGrids = {}
    /\ gridCalls = <<>>
    /\ gridTried = <<>>
    /\ fel = TaggedElement(FALSE, {})
    /\ fpass = "unfiltered"
    /\ mpc = "summary"
    /\ gtable = NoTable
    /\ glines = NoTable
    /\ gmarkers = <<>>
    /\ wpc = "way"
    /\ wscale = 1
    /\ wnodes = <<>>
    /\ wcenter = NoCenter
    /\ mapc = MountedMap

InitGemini ==
    /\ deployed \in RouteVersions
    /\ tiles = {}
    /\ h = IdleHandlers
    /\ kq = IdleQueries
    /\ kid = IdleKeys
    /\ apiKey \in BOOLEAN
    /\ gm = IdleGemini
    /\ rpc = "idle"
    /\ radius = DefaultRadius
    /\ searchRadius = DefaultRadius
    /\ previousRadius = 0
    /\ allElements = NoElements
    /\ bestResult = NoElements
    /\ rateLimitDetected = FALSE
    /\ ring = NoRing
    /\ fetchError = "null"
    /\ step = 0
    /\ requests = {}
    /\ searched = [step |-> 0, outer |-> 0]
    /\ returned = 0
    /\ calls = <<>>
    /\ clock = StartClock
    /\ tried = <<>>
    /\ gpc = "idle"
    /\ gridSize = StartGridSize
    /\ grid = StartGridSize
    /\ gridElements = 0
    /\ gridAttempts = 0
    /\ gridError = "null"
    /\ fetchedGrids = {}
    /\ gridCalls = <<>>
    /\ gridTried = <<>>
    /\ fel = TaggedElement(FALSE, {})
    /\ fpass = "unfiltered"
    /\ mpc = "summary"
    /\ gtable = NoTable
    /\ glines = NoTable
    /\ gmarkers = <<>>
    /\ wpc = "way"
    /\ wscale = 1
    /\ wnodes = <<>>
    /\ wcenter = NoCenter
    /\ mapc = MountedMap

InitRing ==
    /\ deployed = "part_002"
    /\ tiles = {}
    /\ h = IdleHandlers
    /\ kq = IdleQueries
    /\ kid = IdleKeys
    /\ apiKey = TRUE
    /\ gm = IdleGemini
    /\ rpc = "idle"
    /\ radius = DefaultRadius
    /\ searchRadius = DefaultRadius
    /\ previousRadius = 0
    /\ allElements = NoElements
    /\ bestResult = NoElements
    /\ rateLimitDetected = FALSE
    /\ ring = NoRing
    /\ fetchError = "null"
    /\ step = 0
    /\ requests = {}
    /\ searched = [step |-> 0, outer |-> 0]
    /\ returned = 0
    /\ calls = <<>>
    /\ clock = StartClock
    /\ tried = <<>>
    /\ gpc = "idle"
    /\ gridSize = StartGridSize
    /\ grid = StartGridSize
    /\ gridElements = 0
    /\ gridAttempts = 0
    /\ gridError = "null"
    /\ fetchedGrids = {}
    /\ gridCalls = <<>>
    /\ gridTried = <<>>
    /\ fel = TaggedElement(FALSE, {})
    /\ fpass = "unfiltered"
    /\ mpc = "summary"
    /\ gtable = NoTable
    /\ glines = NoTable
    /\ gmarkers = <<>>
    /\ wpc = "way"
    /\ wscale = 1
    /\ wnodes = <<>>
    /\ wcenter = NoCenter
    /\ mapc = MountedMap

InitGrid ==
    /\ deployed = "part_002"
    /\ tiles = {}
    /\ h = IdleHandlers
    /\ kq = IdleQueries
    /\ kid = IdleKeys
    /\ apiKey = TRUE
    /\ gm = IdleGemini
    /\ rpc = "idle"
    /\ radius = DefaultRadius
    /\ searchRadius = DefaultRadius
    /\ previousRadius = 0
    /\ allElements = NoElements
    /\ bestResult = NoElements
    /\ rateLimitDetected = FALSE
    /\ ring = NoRing
    /\ fetchError = "null"
    /\ step = 0
    /\ requests = {}
    /\ searched = [step |-> 0, outer |-> 0]
    /\ returned = 0
    /\ calls = <<>>
    /\ clock = StartClock
    /\ tried = <<>>
    /\ gpc = "idle"
    /\ gridSize = StartGridSize
    /\ grid = StartGridSize
    /\ gridElements = 0
    /\ gridAttempts = 0
    /\ gridError = "null"
    /\ fetchedGrids = {}
    /\ gridCalls = <<>>
    /\ gridTried = <<>>
    /\ fel = TaggedElement(FALSE, {})
    /\ fpass = "unfiltered"
    /\ mpc = "summary"
    /\ gtable = NoTable
    /\ glines = NoTable
    /\ gmarkers = <<>>
    /\ wpc = "way"
    /\ wscale = 1
    /\ wnodes = <<>>
    /\ wcenter = NoCenter
    /\ mapc = MountedMap

InitFilter ==
    /\ deployed = "part_002"
    /\ tiles = {}
    /\ h = IdleHandlers
    /\ kq = IdleQueries
    /\ kid = IdleKeys
    /\ apiKey = TRUE
    /\ gm = IdleGemini
    /\ rpc = "idle"
    /\ radius = DefaultRadius
    /\ searchRadius = DefaultRadius
    /\ previousRadius = 0
    /\ allElements = NoElements
    /\ bestResult = NoElements
    /\ rateLimitDetected = FALSE
    /\ ring = NoRing
    /\ fetchError = "null"
    /\ step = 0
    /\ requests = {}
    /\ searched = [step |-> 0, outer |-> 0]
    /\ returned = 0
    /\ calls = <<>>
    /\ clock = StartClock
    /\ tried = <<>>
    /\ gpc = "idle"
    /\ gridSize = StartGridSize
    /\ grid = StartGridSize
    /\ gridElements = 0
    /\ gridAttempts = 0
    /\ gridError = "null"
    /\ fetchedGrids = {}
    /\ gridCalls = <<>>
    /\ gridTried = <<>>
    /\ fel \in FilterInputs
    /\ fpass = "unfiltered"
    /\ mpc = "summary"
    /\ gtable = NoTable
    /\ glines = NoTable
    /\ gmarkers = <<>>
    /\ wpc = "way"
    /\ wscale = 1
    /\ wnodes = <<>>
    /\ wcenter = NoCenter
    /\ mapc = MountedMap

InitMarkers ==
    /\ deployed = "part_002"
    /\ tiles = {}
    /\ h = IdleHandlers
    /\ kq = IdleQueries
    /\ kid = IdleKeys
    /\ apiKey = TRUE
    /\ gm = IdleGemini
    /\ rpc = "idle"
    /\ radius = DefaultRadius
    /\ searchRadius = DefaultRadius
    /\ previousRadius = 0
    /\ allElements = NoElements
    /\ bestResult = NoElements
    /\ rateLimitDetected = FALSE
    /\ ring = NoRing
    /\ fetchError = "null"
    /\ step = 0
    /\ requests = {}
    /\ searched = [step |-> 0, outer |-> 0]
    /\ returned = 0
    /\ calls = <<>>
    /\ clock = StartClock
    /\ tried = <<>>
    /\ gpc = "idle"
    /\ gridSize = StartGridSize
    /\ grid = StartGridSize
    /\ gridElements = 0
    /\ gridAttempts = 0
    /\ gridError = "null"
    /\ fetchedGrids = {}
    /\ gridCalls = <<>>
    /\ gridTried = <<>>
    /\ fel = TaggedElement(FALSE, {})
    /\ fpass = "unfiltered"
    /\ mpc = "summary"
    /\ gtable \in SummaryTables
    /\ glines = NoTable
    /\ gmarkers = <<>>
    /\ wpc = "way"
    /\ wscale = 1
    /\ wnodes = <<>>
    /\ wcenter = NoCenter
    /\ mapc = MountedMap

InitCenter ==
    /\ deployed = "part_002"
    /\ tiles = {}
    /\ h = IdleHandlers
    /\ kq = IdleQueries
    /\ kid = IdleKeys
    /\ apiKey = TRUE
    /\ gm = IdleGemini
    /\ rpc = "idle"
    /\ radius = DefaultRadius
    /\ searchRadius = DefaultRadius
    /\ previousRadius = 0
    /\ allElements = NoElements
    /\ bestResult = NoElements
    /\ rateLimitDetected = FALSE
    /\ ring = NoRing
    /\ fetchError = "null"
    /\ step = 0
    /\ requests = {}
    /\ searched = [step |-> 0, outer |-> 0]
    /\ returned = 0
    /\ calls = <<>>
    /\ clock = StartClock
    /\ tried = <<>>
    /\ gpc = "idle"
    /\ gridSize = StartGridSize
    /\ grid = StartGridSize
    /\ gridElements = 0
    /\ gridAttempts = 0
    /\ gridError = "null"
    /\ fetchedGrids = {}
    /\ gridCalls = <<>>
    /\ gridTried = <<>>
    /\ fel = TaggedElement(FALSE, {})
    /\ fpass = "unfiltered"
    /\ mpc = "summary"
    /\ gtable = NoTable
    /\ glines = NoTable
    /\ gmarkers = <<>>
    /\ wpc = "way"
    /\ wscale \in Scales
    /\ wnodes \in Ways
    /\ wcenter = NoCenter
    /\ mapc = MountedMap

\* one of the two variants is mounted, the other is not used
InitHooks ==
    /\ deployed = "part_002"
    /\ tiles = {}
    /\ h = IdleHandlers
    /\ kq = IdleQueries
    /\ kid = IdleKeys
    /\ apiKey = TRUE
    /\ gm = IdleGemini
    /\ \/ rpc = "idle" /\ gpc = "unused"
       \/ rpc = "unused" /\ gpc = "idle"
    /\ radius = DefaultRadius
    /\ searchRadius = DefaultRadius
    /\ previousRadius = 0
    /\ allElements = NoElements
    /\ bestResult = NoElements
    /\ rateLimitDetected = FALSE
    /\ ring = NoRing
    /\ fetchError = "null"
    /\ step = 0
    /\ requests = {}
    /\ searched = [step |-> 0, outer |-> 0]
    /\ returned = 0
    /\ calls = <<>>
    /\ clock = StartClock
    /\ tried = <<>>
    /\ gridSize = StartGridSize
    /\ grid = StartGridSize
    /\ gridElements = 0
    /\ gridAttempts = 0
    /\ gridError = "null"
    /\ fetchedGrids = {}
    /\ gridCalls = <<>>
    /\ gridTried = <<>>
    /\ fel = TaggedElement(FALSE, {})
    /\ fpass = "unfiltered"
    /\ mpc = "summary"
    /\ gtable = NoTable
    /\ glines = NoTable
    /\ gmarkers = <<>>
    /\ wpc = "way"
    /\ wscale = 1
    /\ wnodes = <<>>
    /\ wcenter = NoCenter
    /\ mapc = MountedMap

InitMap ==
    /\ deployed = "part_002"
    /\ tiles = {}
    /\ h = IdleHandlers
    /\ kq = IdleQueries
    /\ kid = IdleKeys
    /\ apiKey = TRUE
    /\ gm = IdleGemini
    /\ rpc = "idle"
    /\ radius = DefaultRadius
    /\ searchRadius = DefaultRadius
    /\ previousRadius = 0
    /\ allElements = NoElements
    /\ bestResult = NoElements
    /\ rateLimitDetected = FALSE
    /\ ring = NoRing
    /\ fetchError = "null"
    /\ step = 0
    /\ requests = {}
    /\ searched = [step |-> 0, outer |-> 0]
    /\ returned = 0
    /\ calls = <<>>
    /\ clock = StartClock
    /\ tried = <<>>
    /\ gpc = "idle"
    /\ gridSize = StartGridSize
    /\ grid = StartGridSize
    /\ gridElements = 0
    /\ gridAttempts = 0
    /\ gridError = "null"
    /\ fetchedGrids = {}
    /\ gridCalls = <<>>
    /\ gridTried = <<>>
    /\ fel = TaggedElement(FALSE, {})
    /\ fpass = "unfiltered"
    /\ mpc = "summary"
    /\ gtable = NoTable
    /\ glines = NoTable
    /\ gmarkers = <<>>
    /\ wpc = "way"
    /\ wscale = 1
    /\ wnodes = <<>>
    /\ wcenter = NoCenter
    /\ mapc = MountedMap

SpecTile == InitTile /\ [][NextTile]_vars

SpecKey == InitKey /\ [][NextKey]_vars

SpecGemini == InitGemini /\ [][NextGemini]_vars

SpecRing == InitRing /\ [][NextRing]_vars

SpecGrid == InitGrid /\ [][NextGrids]_vars

SpecFilter == InitFilter /\ [][NextFilter]_vars

SpecMarkers == InitMarkers /\ [][NextMarkers]_vars

SpecCenter == InitCenter /\ [][NextCenter]_vars

SpecHooks == InitHooks /\ [][NextHooks]_vars

SpecMap == InitMap /\ [][NextMap]_vars

\* every timer fires and every HTTP request eventually resolves or fails
SpecHooksFair ==
    InitHooks /\ [][NextHooks]_vars /\ WF_vars(RingProgress) /\ WF_vars(GridProgress)

(***************************************************************************)
(* Claims about GET /api/tile.                                             *)
(***************************************************************************)
\* the Overpass call of invocation i answered 200 with a body that parses
\* and that passes the size guards of the deployed version
UpstreamWorked(i) ==
    /\ h[i].overpass.kind = "answer" /\ h[i].overpass.status = 200 /\ h[i].overpass.bodyOk
    /\ deployed = "part_002" =>
          /\ rawCount(h[i].overpass.osmData) <= MaxRawElements
          /\ h[i].overpass.osmData.chars <= MaxProcessedChars

\* what processOsmData makes of the Overpass answer of invocation i
ProcessedOf(i) ==
    processOsmData(deployed, h[i].overpass.osmData, isRadiusQuery(deployed, h[i].q))

\* the key the end-to-end scenario names: tile_47.37690_8.54170_z17
ScenarioKey ==
    <<"t", "i", "l", "e", "_", "4", "7", ".", "3", "7", "6", "9", "0", "_",
      "8", ".", "5", "4", "1", "7", "0", "_", "z", "1", "7">>

\* C1: with a working store and upstream, a GET whose lookup finds no row
\* makes exactly one Overpass call and one insert under the derived key
\* (tile_47.37690_8.54170_z17 for lat=47.3769&lng=8.5417) and answers 200 with
\* X-Cache: miss; a GET that arrives after a row was stored under its key
\* answers 200 with X-Cache: hit and a stored payload as its body, and makes
\* no Overpass call and no insert.
TileMissThenHit ==
    \A i \in Slots :
        h[i].pc = "done" =>
          /\ (h[i].cached = "miss" /\ UpstreamWorked(i)
                 /\ h[i].store \notin {"SQLITE_NOMEM", "error"}) =>
                /\ h[i].nFetch = 1 /\ h[i].nWrite = 1
                /\ h[i].response = DataResponse("miss", ProcessedOf(i))
                /\ SelectData(tiles, h[i].tile_id) # {}
                /\ (deployed = "route.ts" /\ h[i].q = qPoint) => h[i].tile_id = ScenarioKey
          /\ (h[i].after # {} /\ h[i].cached # "error") => h[i].cached = "hit"
          /\ h[i].cached = "hit" =>
                /\ h[i].response.status = 200 /\ h[i].response.xcache = "hit"
                /\ h[i].nFetch = 0 /\ h[i].nWrite = 0
                /\ \E j \in Slots \ {i} :
                      /\ h[j].nWrite = 1 /\ h[j].tile_id = h[i].tile_id
                      /\ h[i].response.data = h[j].processed

\* the scenario: the first GET of lat=47.3769&lng=8.5417 missed and stored,
\* the second one hit
TileMissThenHitWitness ==
    /\ deployed = "route.ts"
    /\ h[1].pc = "done" /\ h[1].q = qPoint /\ h[1].cached = "miss" /\ h[1].nWrite = 1
    /\ h[2].pc = "done" /\ h[2].q = qPoint /\ h[2].cached = "hit"
    /\ h[2].after = {1}

\* C6: the cache holds at most one row per key, and the data of a row is the
\* whole processed payload of one Overpass answer obtained for that key.
OneWholeRowPerKey ==
    /\ \A r1, r2 \in tiles : r1.id = r2.id => r1 = r2
    /\ \A r \in tiles :
          \E j \in Slots :
              /\ h[j].nWrite = 1 /\ h[j].tile_id = r.id
              /\ r.data = ProcessedOf(j)

\* two concurrent misses of one key stored different payloads one after the other
OneWholeRowPerKeyWitness ==
    /\ h[1].nWrite = 1 /\ h[2].nWrite = 1
    /\ h[1].cached = "miss" /\ h[2].cached = "miss"
    /\ h[1].tile_id = h[2].tile_id
    /\ h[1].processed # h[2].processed
    /\ Len(h[1].processed.elements) > 0 /\ Len(h[2].processed.elements) > 0
    /\ Cardinality(tiles) = 1

TooLargeRejected ==
    \A i \in Slots :
        (/\ deployed = "part_002" /\ h[i].pc = "done" /\ h[i].nFetch = 1
         /\ h[i].overpass.kind = "answer" /\ h[i].overpass.status = 200
         /\ h[i].overpass.bodyOk
         /\ \/ rawCount(h[i].overpass.osmData) > MaxRawElements
            \/ ProcessedOf(i).chars > MaxProcessedChars) =>
          /\ h[i].response = ErrorResponse(413)
          /\ h[i].nWrite = 0
          /\ StoredBefore(i) = {} => SelectData(tiles, h[i].tile_id) = {}

TooLargeRejectedWitness ==
    /\ deployed = "part_002"
    /\ h[1].pc = "done" /\ h[1].response.status = 413
    /\ rawCount(h[1].overpass.osmData) > MaxRawElements
    /\ h[2].pc = "done" /\ h[2].response.status = 413
    /\ rawCount(h[2].overpass.osmData) <= MaxRawElements
    /\ h[2].overpass.osmData.chars > MaxProcessedChars
    /\ tiles = {}

\* the query has neither a complete bounding box nor the point parameters
\* the deployed version asks for
NeitherBboxNorPoint(q) ==
    /\ isNaN(q.minLat) \/ isNaN(q.minLng) \/ isNaN(q.maxLat) \/ isNaN(q.maxLng)
    /\ isNaN(q.lat) \/ isNaN(q.lng) \/ (deployed = "part_002" /\ isNaN(q.radius))

\* C9: a request with neither a complete bounding box nor valid point
\* parameters is answered 400 with an {error} body, before any cache lookup,
\* Overpass call or cache write.
InvalidAnswered400 ==
    \A i \in Slots :
        (h[i].pc # "idle" /\ NeitherBboxNorPoint(h[i].q)) =>
          /\ h[i].pc = "done"
          /\ h[i].response = ErrorResponse(400)
          /\ h[i].cached = "none" /\ h[i].nFetch = 0 /\ h[i].nWrite = 0

InvalidAnswered400Witness ==
    /\ h[1].pc = "done" /\ h[1].q = qPartial /\ h[1].response.status = 400
    /\ h[2].pc = "done" /\ h[2].q = qPoint /\ h[2].response.status = 400
    /\ tiles = {}

(***************************************************************************)
(* Claims about the cache key.                                             *)
(***************************************************************************)
SameRounded(x, y) == Round5(Val(x)) = Round5(Val(y))

\* the parameters a shape's key is built from are equal after rounding the
\* coordinates to 5 decimals
EqualAfterRounding(shape, q1, q2) ==
    CASE shape = "bbox" ->
            /\ SameRounded(q1.minLat, q2.minLat) /\ SameRounded(q1.minLng, q2.minLng)
            /\ SameRounded(q1.maxLat, q2.maxLat) /\ SameRounded(q1.maxLng, q2.maxLng)
      [] shape = "tile" -> SameRounded(q1.lat, q2.lat) /\ SameRounded(q1.lng, q2.lng)
      [] shape = "radius" ->
            /\ SameRounded(q1.lat, q2.lat) /\ SameRounded(q1.lng, q2.lng)
            /\ q1.radius = q2.radius
      [] shape = "ring" ->
            /\ SameRounded(q1.lat, q2.lat) /\ SameRounded(q1.lng, q2.lng)
            /\ q1.radius = q2.radius /\ q1.innerRadius = q2.innerRadius

\* C5: two requests of one shape whose parameters are equal after rounding
\* the coordinates to 5 decimals derive the same key, and two requests of
\* different shapes never derive the same key.
KeyOfRoundedParameters ==
    (kid[1] # <<>> /\ kid[2] # <<>>) =>
        /\ (kid[1][1] = kid[2][1] /\ EqualAfterRounding(kid[1][1], kq[1], kq[2])) =>
              kid[1][2] = kid[2][2]
        /\ kid[1][1] # kid[2][1] => kid[1][2] # kid[2][2]

(***************************************************************************)
(* Claims about all the route handlers.                                    *)
(***************************************************************************)
\* something failed in invocation m of a Gemini handler
GeminiFailed(m) ==
    \/ ~gm[m].bodyOk
    \/ ~apiKey
    \/ gm[m].nCalls > 0 /\ (gm[m].upstream.kind = "throw" \/ ~gm[m].upstream.bodyOk
                              \/ gm[m].upstream.status # 200)

\* something failed in invocation i of the tile handler
TileFailed(i) ==
    \/ QueryShape(deployed, h[i].q) = "invalid"
    \/ h[i].cached = "error"
    \/ h[i].nFetch > 0 /\ (h[i].overpass.kind = "throw" \/ ~h[i].overpass.bodyOk
                             \/ h[i].overpass.status # 200)
    \/ h[i].store \in {"SQLITE_NOMEM", "error"}

\* C10: every route handler ends every request with a Response; for every
\* failure (a request body that is not valid JSON, a failing cache lookup, a
\* failing upstream call) the Response is a JSON error body with an error
\* status, and no exception escapes a handler.
HandlersAlwaysRespond ==
    /\ \A m \in GeminiMethods :
          /\ gm[m].pc # "escaped"
          /\ (gm[m].pc = "done" /\ GeminiFailed(m)) =>
                gm[m].response.kind = "error" /\ gm[m].response.status >= 400
    /\ \A i \in Slots :
          (h[i].pc = "done" /\ TileFailed(i)) =>
             h[i].response.kind = "error" /\ h[i].response.status >= 400


(***************************************************************************)
(* The ring search of useFetchOsmData.                                     *)
(***************************************************************************)
LoopRequests == {r \in requests : r.caller = "loop"}

\* C2: whatever the initial radius, no request of a search asks for a radius
\* greater than 2000 m.
NoRequestBeyond2000 == \A r \in requests : r.outer <= MaxSearchRadius

\* C3 as stated: the same ring is never requested by two different steps of
\* a search, and no step requests the inner disc that an earlier step has
\* searched.
NoRingFetchedTwice ==
    /\ \A r1, r2 \in requests :
          r1.step # r2.step => <<r1.inner, r1.outer>> # <<r2.inner, r2.outer>>
    /\ searched.step > 0 =>
          \A r \in requests : r.step > searched.step => r.inner >= searched.outer

\* C3: among the iterations of the widening loop, each one requests the ring
\* from previousRadius to the current radius, previousRadius strictly
\* increases from one iteration to the next, and a later iteration starts at
\* or beyond the outer radius of every earlier one.
LoopRingsNeverRepeat ==
    /\ \A r \in LoopRequests : r.inner < r.outer
    /\ \A r1, r2 \in LoopRequests :
          r1.step < r2.step => r1.inner < r2.inner /\ r1.outer <= r2.inner
    /\ (rpc \in {"send", "request"} /\ ring.caller = "loop")
          => ring.innerRadius = previousRadius /\ ring.outerRadius = searchRadius

LoopRingsNeverRepeatWitness ==
    /\ rpc = "done"
    /\ Cardinality({r.step : r \in LoopRequests}) >= 3
    /\ searched.step = 1
    /\ allElements.ring > 0

(***************************************************************************)
(* The grid search of useFetchOsmData.                                     *)
(***************************************************************************)
\* C4: started from grid size 3, no bounding box is fetched for a grid
\* larger than 29 and the grid variable of the loop never exceeds 29.
GridNeverExceeds29 ==
    /\ \A g \in fetchedGrids : g <= MaxGrid
    /\ grid <= MaxGrid

(***************************************************************************)
(* POST /api/gemini.                                                       *)
(***************************************************************************)
\* the upstream call of POST ended and succeeded: a 2xx answer whose body
\* parses and has candidates
PostUpstreamSucceeded ==
    /\ gm["POST"].nCalls > 0
    /\ gm["POST"].upstream.kind = "answer" /\ gm["POST"].upstream.status = 200
    /\ gm["POST"].upstream.bodyOk /\ gm["POST"].upstream.candidates

\* C11: POST answers 500 with an {error} body when the API key is absent
\* (without calling the upstream) or the upstream call fails (it throws,
\* answers non-2xx, or answers without candidates); it answers 200 only when
\* the upstream call succeeded.
PostAnswers500OnFailure ==
    gm["POST"].pc = "done" =>
       /\ ~apiKey => (gm["POST"].nCalls = 0 /\ gm["POST"].response.status = 500
                        /\ gm["POST"].response.kind = "error")
       /\ (gm["POST"].nCalls > 0 /\ ~PostUpstreamSucceeded) =>
             (gm["POST"].response.status = 500 /\ gm["POST"].response.kind = "error")
       /\ gm["POST"].response.status = 200 => PostUpstreamSucceeded

(***************************************************************************)
(* The tag filter.                                                         *)
(***************************************************************************)
\* the default allowed set, list by list
DefaultEntries ==
    tagGroups.Entertainment \cup tagGroups.Culture \cup tagGroups.Nature
      \cup tagGroups.History \cup tagGroups.Tourism

OnlyTag(key, value) == TaggedElement(TRUE, {<<key, value>>})

\* C12: with the default allowed set an element passes the tag filter if and
\* only if one of its tags equals an entry of the five lists by its key or by
\* its key:value; an element tagged only amenity=museum is dropped, one tagged
\* only tourism=museum is kept, an element without tags is dropped.
TagFilterMatchesDefaultSet ==
    fpass # "unfiltered" =>
       /\ fpass = "kept" <=>
             (fel.hasTags /\ \E t \in fel.tags, e \in DefaultEntries :
                                e = t[1] \/ e = t[1] \o ":" \o t[2])
       /\ fel = OnlyTag("amenity", "museum") => fpass = "dropped"
       /\ fel = OnlyTag("tourism", "museum") => fpass = "kept"
       /\ ~fel.hasTags => fpass = "dropped"

\* an element tagged amenity=museum and tourism=museum was kept
TagFilterMatchesDefaultSetWitness ==
    /\ fel = TaggedElement(TRUE, {<<"amenity", "museum">>, <<"tourism", "museum">>})
    /\ fpass = "kept"

(***************************************************************************)
(* parseGeminiMarkers.                                                     *)
(***************************************************************************)
WrittenHeader == gtable.header.cells

HasColumn(column) == \E k \in 1..Len(WrittenHeader) : WrittenHeader[k] = column

\* the marker row r of the table stands for
MarkerOfRow(r) ==
    GeminiMarker(CellOf(r, "name"), CellOf(r, "description"),
                 Val(parseFloat(CellOf(r, "latitude"))),
                 Val(parseFloat(CellOf(r, "longitude"))))

\* C13: for a table whose header has no Popularity column but a Best for
\* column (next to Name, Description, Latitude and Longitude), every repaired
\* row carries its Best for value in the Popularity slot, and the markers are
\* those of the rows: name, description, latitude and longitude of marker r
\* are the cells of row r.
BestForRepairedAligned ==
    (/\ mpc = "parsed"
     /\ ~HasColumn("Popularity") /\ HasColumn("Best for")
     /\ HasColumn("Description") /\ HasColumn("Latitude") /\ HasColumn("Longitude")) =>
       /\ \A r \in 1..Len(glines.rows) :
             At(glines.rows[r].cells, indexOf(requiredHeaders, "popularity"))
                = CellOf(r, "best for")
       /\ Len(gmarkers) = Len(gtable.rows)
       /\ \A r \in 1..Len(gmarkers) : gmarkers[r] = MarkerOfRow(r)

(***************************************************************************)
(* C14: for every closed polygon (first and last coordinate within 1e-4     *)
(* degree of each other) with at least 4 coordinates and a signed area      *)
(* that is not zero, getWayCenter returns the shoelace centroid; for the    *)
(* unit square (0,0),(0,1),(1,1),(1,0),(0,0) it returns (0.5, 0.5).         *)
(***************************************************************************)
UnitSquare == <<Coord(0, 0), Coord(0, 1), Coord(1, 1), Coord(1, 0), Coord(0, 0)>>

ClosedWithArea ==
    /\ Len(wnodes) >= 4
    /\ withinClosedTolerance(wscale, wnodes[1].lat - wnodes[Len(wnodes)].lat)
    /\ withinClosedTolerance(wscale, wnodes[1].lon - wnodes[Len(wnodes)].lon)
    /\ shoelace(wnodes, 1).area # 0

ShoelaceForClosedPolygons ==
    wpc = "centered" =>
        /\ ClosedWithArea => SameCenter(wcenter, shoelaceCentroid(wnodes))
        /\ (wscale = 1 /\ wnodes = UnitSquare) =>
               SameCenter(wcenter, Coord(Frac(1, 2), Frac(1, 2)))

(***************************************************************************)
(* C15: when a ring fetch receives a 4xx answer other than 408, 413 and     *)
(* 429, the ring search aborts: the request is not sent again and no       *)
(* further ring is requested in that search.                               *)
(***************************************************************************)
\* the answer the last request of the search got (0: none, or a rejected fetch)
LastStatus == IF tried = <<>> THEN 0 ELSE tried[Len(tried)].status

OtherClientError(status) == status >= 400 /\ status < 500 /\ status \notin {408, 413, 429}

ClientErrorAborts == OtherClientError(LastStatus) => rpc = "done"

(***************************************************************************)
(* C16: whenever a ring fetch of the loop gives up with the rate-limit      *)
(* error, the expansion loop stops and, after the 5 s cooldown, exactly    *)
(* one fallback query fetchOsmWithRing(200, 0) is attempted.  As claimed:  *)
(* for every number of elements accumulated so far.  As the code has it:   *)
(* only when fewer than 5 elements have been accumulated, and none          *)
(* otherwise.                                                              *)
(***************************************************************************)
\* the calls of fetchOsmWithRing made for the fallback query
FallbackCalls == {q.step : q \in {x \in requests : x.caller = "fallback"}}

\* the calls of the expansion loop
LoopCalls == {q.step : q \in {x \in requests : x.caller = "loop"}}

\* the search is over and a fetch of the loop gave up with RATE_LIMIT
EndedRateLimited == rpc = "done" /\ rateLimitDetected

OneFallbackQuery ==
    /\ Cardinality(FallbackCalls) = 1
    /\ \A q \in requests : q.caller = "fallback" =>
           /\ q.outer = FallbackRadius
           /\ q.inner = 0
           /\ \A x \in LoopCalls : x < q.step

FallbackAfterEveryRateLimit == EndedRateLimited => OneFallbackQuery

FallbackWhenFewElements ==
    /\ (rpc = "cooldown" \/ FallbackCalls # {}) => rateLimitDetected /\ returned < FallbackBelow
    /\ rateLimitDetected => (rpc \in {"cooldown", "done"} \/ ring.caller = "fallback")
    /\ EndedRateLimited =>
           IF returned < FallbackBelow THEN OneFallbackQuery ELSE FallbackCalls = {}

FallbackWhenFewElementsWitness ==
    /\ EndedRateLimited
    /\ returned > 0
    /\ OneFallbackQuery

(***************************************************************************)
(* C17: when the tile endpoint keeps answering 429, a ring fetch sends the  *)
(* request again up to 3 times, waiting 4 s, 8 s and 16 s before the       *)
(* successive retries, and only then gives up with the rate-limit error.   *)
(***************************************************************************)
\* every request of the call got the answer `status`
AllAnswered(status) == tried # <<>> /\ \A k \in 1..Len(tried) : tried[k].status = status

\* the waits of the call, in order
WaitsOf(log) == [k \in 1..Len(log) |-> log[k].wait]

\* the call has returned to runFetch, which has not started another call since
CallReturned == rpc \in {"cooldown", "done"}

RateLimitBackoff ==
    (CallReturned /\ AllAnswered(429)) => WaitsOf(tried) = <<4000, 8000, 16000, 0>>

(***************************************************************************)
(* C18: on 5xx answers a fetch of the search hooks (ring and grid           *)
(* variants) sends the same request again, at most 3 times, waiting 1 s    *)
(* times the attempt number before each retry, and reports a server error  *)
(* once the last attempt has failed.  (The code stops at 3 requests, that  *)
(* is 2 retries.)                                                          *)
(***************************************************************************)
\* the log of one call: at most maxAttempts requests; a 5xx answer to attempt
\* k < maxAttempts is followed by a wait of k seconds and a retry, one to the
\* last attempt by no wait
ServerErrorsRetried(log) ==
    /\ Len(log) <= maxAttempts
    /\ \A k \in 1..Len(log) :
           /\ log[k].status >= 500 =>
                  log[k].wait = (IF k < maxAttempts THEN 1000 * k ELSE 0)
           /\ k < Len(log) => log[k].wait > 0

\* the last attempt of the call failed with a 5xx answer
LastAttemptFailed(log) == Len(log) = maxAttempts /\ log[maxAttempts].status >= 500

\* the retries of a call repeat its request
SameRequestRetried == \A q1, q2 \in requests : q1.step = q2.step => q1 = q2

GridServerErrorRetriesWitness ==
    /\ gpc = "done"
    /\ gridError = "Server error"
    /\ gridTried = <<[status |-> 500, wait |-> 1000], [status |-> 500, wait |-> 2000],
                     [status |-> 500, wait |-> 0]>>

(***************************************************************************)
(* C19: after the tile endpoint answers 408 or 413 to a ring fetch, the     *)
(* search issues no further request at all (no retry of that ring, no      *)
(* larger ring, no fallback query) and delivers to onDataFetched exactly   *)
(* the elements accumulated before the failure.                            *)
(***************************************************************************)
\* the argument of onDataFetched: the length of the list delivered
Delivered == calls[1].arg

TimeoutOrTooLargeEndsSearch ==
    LastStatus \in {408, 413} =>
        /\ rpc = "done"
        /\ tried[Len(tried)].wait = 0
        /\ calls # <<>>
        /\ calls[1].name = "onDataFetched"
        /\ Delivered = returned
        /\ Length(allElements) = returned

TimeoutOrTooLargeEndsSearchWitness ==
    /\ LastStatus \in {408, 413}
    /\ ring.caller = "loop"
    /\ step > 1
    /\ returned > 0
    /\ rpc = "done"
    /\ Delivered = returned

(***************************************************************************)
(* C20: the element list delivered to onDataFetched at the end of a ring    *)
(* search contains every element returned by every successful ring fetch   *)
(* of that search: the results of earlier rings are never discarded,       *)
(* including when the rate-limit fallback query runs.                      *)
(***************************************************************************)
RingResultsNeverDiscarded ==
    rpc = "done" =>
        /\ calls[1].name = "onDataFetched"
        /\ calls[1].arg = Length(bestResult)
        /\ bestResult.ring = returned

(***************************************************************************)
(* C21: any two consecutive requests that the ring search hook sends to     *)
(* the tile endpoint are at least 1.5 s apart: requests of successive      *)
(* rings, and the retries sent after 5xx answers and network failures.     *)
(***************************************************************************)
RequestsSpaced == clock.gap >= minRequestInterval

(***************************************************************************)
(* C22: when the grid search finishes, the grid size reported through       *)
(* onGridSizeUpdate equals the grid size of the last bounding box that     *)
(* was fetched, both when the 20-element threshold was met and when the    *)
(* cap stopped the loop.                                                   *)
(***************************************************************************)
\* the grid size of the last bounding box requested (the sizes only grow)
LastFetchedGrid == CHOOSE g \in fetchedGrids : \A g2 \in fetchedGrids : g2 <= g

ReportedGridWasFetched ==
    gpc = "done" =>
        /\ gridCalls[4].name = "onGridSizeUpdate"
        /\ gridCalls[4].arg = LastFetchedGrid
        /\ gridSize = LastFetchedGrid

(***************************************************************************)
(* C23: every started search (grid or ring variant), provided each HTTP     *)
(* request eventually resolves or fails, terminates for every sequence of  *)
(* answers, and then has called onDataFetched, onSpinnerToggle(false),     *)
(* onPanelOpen, the size-update callback and onFetchComplete exactly once  *)
(* each, in that order.                                                    *)
(***************************************************************************)
CallbackNames(cs) == [k \in 1..Len(cs) |-> cs[k].name]

RingSearchRunning == rpc \in {"send", "request", "cooldown"}

GridSearchRunning == gpc \in {"send", "request"}

RingCallbacksOnce ==
    IF rpc = "done"
    THEN CallbackNames(calls) = <<"onDataFetched", "onSpinnerToggle", "onPanelOpen",
                                  "onRadiusUpdate", "onFetchComplete">>
    ELSE calls = <<>>

GridCallbacksOnce ==
    IF gpc = "done"
    THEN CallbackNames(gridCalls) = <<"onDataFetched", "onSpinnerToggle", "onPanelOpen",
                                      "onGridSizeUpdate", "onFetchComplete">>
    ELSE gridCalls = <<>>

SearchTerminatesWithCallbacks ==
    /\ [](RingCallbacksOnce /\ GridCallbacksOnce)
    /\ RingSearchRunning ~> (rpc = "done")
    /\ GridSearchRunning ~> (gpc = "done")

SearchTerminatesWithCallbacksWitness ==
    /\ rpc = "done"
    /\ step > 1
    /\ Len(calls) = 5

(***************************************************************************)
(* C24: at most one search loop runs at a time: if a dependency of the     *)
(* fetch effect changes while a search is in flight and shouldFetchOsm is  *)
(* still true, no second loop runs concurrently with the first, so the     *)
(* data delivered last to onDataFetched belongs to the most recently       *)
(* started search.                                                         *)
(***************************************************************************)
RunningLoops == {i \in 1..Len(mapc.loops) : mapc.loops[i].running}

OneLoopAtATime ==
    /\ Cardinality(RunningLoops) <= 1
    /\ (mapc.osmData # 0 /\ RunningLoops = {}) => mapc.osmData = Len(mapc.loops)

\* two loops run at once after a dependency change
TwoLoopsRunning == Cardinality(RunningLoops) = 2

(***************************************************************************)
(* C30: a search started with "Everything around me" (handleFindLocation)  *)
(* filters with the default allowed set, also after an earlier interest    *)
(* search had installed a filtered tag set.                                *)
(***************************************************************************)
ExploreUsesAllowedTags ==
    \A i \in 1..Len(mapc.loops) :
        mapc.loops[i].mode = "explore" => mapc.loops[i].tags = allowedTags

(***************************************************************************)
(* C28: whenever the summary request fails, through a network failure or   *)
(* through an error answer of the summarization endpoint, onSummarize sets *)
(* the summary to "Error retrieving summary.", opens the top panel and     *)
(* resets loadingSummary.                                                  *)
(***************************************************************************)
SummaryFailureReported ==
    mapc.answered \in {"reject", "error", "nojson"} =>
        /\ mapc.summary = "Error retrieving summary."
        /\ mapc.topPanelOpen
        /\ ~mapc.loadingSummary

(***************************************************************************)
(* C25: every row of the tile cache was written by a request whose         *)
(* Overpass call answered 2xx within the size limits (the limits are those *)
(* of part_002); a request answered with an error creates or changes no    *)
(* row, so a query that failed is fetched from upstream again when it is   *)
(* repeated.                                                               *)
(***************************************************************************)
\* invocation j wrote the row r after a successful Overpass call
WroteRow(j, r) ==
    /\ h[j].nWrite = 1 /\ h[j].tile_id = r.id /\ h[j].processed = r.data
    /\ h[j].response = DataResponse("miss", r.data)
    /\ h[j].overpass.kind = "answer" /\ h[j].overpass.status = 200
    /\ h[j].overpass.bodyOk
    /\ deployed = "part_002" =>
          /\ rawCount(h[j].overpass.osmData) <= MaxRawElements
          /\ r.data.chars <= MaxProcessedChars

\* invocation i has answered an error
AnsweredError(i) == h[i].pc = "done" /\ h[i].response.kind = "error"

OnlySuccessesCached ==
    /\ \A r \in tiles : \E j \in Slots : WroteRow(j, r)
    /\ \A i \in Slots : AnsweredError(i) =>
          /\ h[i].nWrite = 0
          /\ h[i].response.status \in {400, 408, 413, 429, 500, 502}
          /\ \A j \in Slots :
                (/\ j > i /\ h[j].tile_id = h[i].tile_id
                 /\ h[j].cached \in {"hit", "miss"}
                 /\ h[j].after = {}) =>
                   /\ h[j].cached = "miss"
                   /\ h[j].pc = "done" => h[j].nFetch = 1

\* a query fails upstream, is repeated, fetched again and then stored
OnlySuccessesCachedWitness ==
    /\ AnsweredError(1) /\ h[1].response.status = 429
    /\ h[2].pc = "done" /\ h[2].tile_id = h[1].tile_id
    /\ h[2].cached = "miss" /\ h[2].nFetch = 1
    /\ \E r \in tiles : WroteRow(2, r)

(***************************************************************************)
(* C29: a relation for which calculateRelationCentroid finds no coordinate *)
(* source is absent from the processed elements that the tile endpoint     *)
(* caches and returns.                                                     *)
(***************************************************************************)
\* the relations of an Overpass answer that get no centroid
RelationsWithoutCentroid(osmData) ==
    {osmData.elements[k] : k \in {n \in 1..Len(osmData.elements) :
        /\ Has(osmData.elements[n], "type") /\ osmData.elements[n].type = "relation"
        /\ calculateRelationCentroid(osmData.elements[n]) = <<>>}}

\* the ids of the elements of a processed payload
IdsOf(data) == {data.elements[k].id : k \in 1..Len(data.elements)}

RelationWithoutCentroidDropped ==
    \A i \in Slots :
        (deployed = "part_002" /\ h[i].pc = "done" /\ h[i].nWrite = 1) =>
            \A el \in RelationsWithoutCentroid(h[i].overpass.osmData) :
                /\ el.id \notin IdsOf(h[i].response.data)
                /\ \A r \in SelectData(tiles, h[i].tile_id) :
                      r.data = h[i].processed => el.id \notin IdsOf(r.data)

(***************************************************************************)
(* C26: one call of fetchOsmWithRing sends at most 3 HTTP requests, for    *)
(* every mix of 429 answers, 5xx answers and network failures, because all *)
(* three kinds of failure consume the same attempt counter; the call then  *)
(* returns to runFetch.                                                    *)
(***************************************************************************)
\* the answers that make fetchOsmWithRing send the request again
RetriedStatuses == {0, 429, 500}

AtMostThreeRequests ==
    /\ Len(tried) <= 3
    /\ rpc = "request" => Len(tried) = ring.attempts /\ ring.attempts + 1 <= 3
    /\ \A k \in 1..Len(tried) :
           tried[k].wait > 0 => tried[k].status \in RetriedStatuses /\ k < 3
    /\ (Len(tried) = 3 /\ rpc # "request") =>
           /\ tried[3].wait = 0
           /\ rpc \in {"cooldown", "done"} \/ (rpc = "send" /\ ring.attempts = 0)

\* a call whose three requests met a 429 answer, a 5xx answer and a network
\* failure, and which has returned to runFetch
AtMostThreeRequestsWitness ==
    /\ Len(tried) = 3
    /\ {tried[k].status : k \in 1..3} = RetriedStatuses
    /\ rpc = "send" /\ ring.attempts = 0

(***************************************************************************)
(* C27: every failed fetch in the search hooks (network failure, 4xx       *)
(* answer, 5xx answer) sets the fetch-error slot to a non-null message.    *)
(***************************************************************************)
\* the last request of the log failed
LastRequestFailed(log) == log # <<>> /\ log[Len(log)].status # 200

FailedFetchSetsError ==
    /\ (rpc = "done" /\ LastRequestFailed(tried)) => fetchError # "null"
    /\ (gpc = "done" /\ LastRequestFailed(gridTried)) => gridError # "null"

====
